---- MODULE Spec2Model ----
(***************************************************************************)
(* CardMinds: the authoritative game-state machine of                      *)
(* src/src/ai/flows/game-actions.ts (lines 1-736, the current version of   *)
(* the flows) over the card, target, evaluator and scoring library of      *)
(* src/src/lib/game.ts (lines 94-408, the version the flows import).       *)
(*                                                                         *)
(* One Firestore game document and its player sub-documents are the state. *)
(* Every runTransaction / updateDoc of the flows is one atomic action; a   *)
(* flow that runs two of them (playerAction and resolveSpecialCard, which  *)
(* commit and then call advanceTurn; joinGame, which queries the names and *)
(* then commits) is two actions with the call in flight between them.      *)
(***************************************************************************)
EXTENDS Integers, Sequences, FiniteSets, TLC

(***************************************************************************)
(* Bounds of the model.                                                    *)
(***************************************************************************)
\* How many of the four suits a standard set is built from.
NumSuits == 2
\* How many player document ids exist (the creator takes one of them).
NumIds == 3
\* Players in the lobby when a game is dealt.
MaxLobby == 8
\* The creator starts a game of at most this many players.
MaxSeats == 2
\* The longest list of used cards a client sends with a submit.
MaxNamedCards == 51
\* Math.random() returns k / RandDenom for some k in 0 .. RandDenom - 1.
RandDenom == 2
\* A Special game (99 rounds in the code) starts no round beyond this one.
MaxRound == 3
\* The same for the single-seat games of SoloSpec.
SoloMaxRound == 4
\* How many calls of a single-seat game are made out of turn or out of state.
MaxResumed == 1
\* How many advanceTurn calls may be in flight at once.
MaxInFlight == 1
MaxRacing == 2
ShuffleSeats == 3
\* How many calls of a run are made out of turn or out of state.
MaxOffProtocol == 1
\* Date.now() returns a millisecond of 1 .. MaxClock.
MaxClock == 2
\* No operation grows a hand beyond this many cards.
MaxHand == 14
\* How many special cards are played in a run.
MaxSpecialPlays == 1

(***************************************************************************)
(* Numbers and equation terms (src/src/lib/types.ts EquationTerm).         *)
(* A JavaScript number is an exact rational n/d, +-Infinity or NaN; a term *)
(* is a number or a string.                                                *)
(***************************************************************************)
Abs(x) == IF x < 0 THEN -x ELSE x

RECURSIVE Gcd(_, _)
Gcd(a, b) == IF b = 0 THEN a ELSE Gcd(b, a % b)

\* The finite number n/d in lowest terms with a positive denominator.
Rat(n, d) ==
    LET g == Gcd(Abs(n), Abs(d))
        s == IF d < 0 THEN -1 ELSE 1
    IN  [k |-> "num", n |-> (s * n) \div g, d |-> (s * d) \div g, s |-> ""]

Num(n) == [k |-> "num", n |-> n, d |-> 1, s |-> ""]
Str(s) == [k |-> "str", n |-> 0, d |-> 1, s |-> s]
Infinity(sign) == [k |-> "inf", n |-> sign, d |-> 1, s |-> ""]
NaN == [k |-> "nan", n |-> 0, d |-> 1, s |-> ""]
\* The { error: message } object the evaluator returns.
Err(msg) == [k |-> "err", n |-> 0, d |-> 1, s |-> msg]
IsError(v) == v.k = "err"

\* typeof t === 'number' (a term of an equation is never Infinity or NaN).
IsNumber(t) == t.k = "num"

(***************************************************************************)
(* Cards and decks (src/src/lib/game.ts).                                  *)
(***************************************************************************)
SUITS == SubSeq(<<"Spades", "Hearts", "Diamonds", "Clubs">>, 1, NumSuits)
RANKS == <<"A", "2", "3", "4", "5", "6", "7", "8", "9", "10", "J", "Q", "K">>
SPECIAL_RANKS == <<"CL", "SB", "SH", "DE">>

BASE_CARD_VALUES ==
    [r \in {"A", "2", "3", "4", "5", "6", "7", "8", "9", "10",
            "J", "Q", "K", "CL", "SB", "SH", "DE"} |->
        CASE r = "A" -> Num(1)
          [] r = "2" -> Num(2)
          [] r = "3" -> Num(3)
          [] r = "4" -> Num(4)
          [] r = "5" -> Num(5)
          [] r = "6" -> Num(6)
          [] r = "7" -> Num(7)
          [] r = "8" -> Num(8)
          [] r = "9" -> Num(9)
          [] r = "10" -> Num(10)
          [] r = "J" -> Str("+")
          [] r = "Q" -> Str("-")
          [] r = "K" -> Str("*")
          [] r = "CL" -> Str("Clone")
          [] r = "SB" -> Str("Sabotage")
          [] r = "SH" -> Str("Shuffle")
          [] r = "DE" -> Str("Destiny")]

PRO_CARD_VALUES == [BASE_CARD_VALUES EXCEPT !["K"] = Str("/")]
EASY_CARD_VALUES == [BASE_CARD_VALUES EXCEPT !["K"] = Str("*")]
SPECIAL_CARD_VALUES == [PRO_CARD_VALUES EXCEPT !["K"] = Str("**")]

getCardValues(mode) ==
    IF mode = "special" THEN SPECIAL_CARD_VALUES
    ELSE IF mode = "pro" THEN PRO_CARD_VALUES
    ELSE EASY_CARD_VALUES

Card(id, suit, rank) == [id |-> id, suit |-> suit, rank |-> rank]

\* Index (1-based) of the first element satisfying Test, 0 when none
\* (Array.findIndex, which is 0-based and returns -1).
FindIndex(s, Test(_)) ==
    IF \E i \in 1..Len(s) : Test(s[i])
    THEN CHOOSE i \in 1..Len(s) : Test(s[i]) /\ \A j \in 1..(i - 1) : ~Test(s[j])
    ELSE 0

\* A splice that removes nothing (Array.splice(i, 0)).
RemoveNone(s, i) == s

\* The sequence without its element at index i (Array.splice(i, 1)).
RemoveAt(s, i) == SubSeq(s, 1, i - 1) \o SubSeq(s, i + 1, Len(s))

\* The first n elements and the rest (Array.splice(0, n) and what it leaves).
Take(s, n) == SubSeq(s, 1, IF n < Len(s) THEN n ELSE Len(s))
Drop(s, n) == SubSeq(s, (IF n < Len(s) THEN n ELSE Len(s)) + 1, Len(s))

Ids(cards) == {cards[i].id : i \in 1..Len(cards)}

\* One standard set: for suit of SUITS, for rank of RANKS.
StandardSet(i) ==
    [k \in 1..(Len(SUITS) * Len(RANKS)) |->
        LET suit == SUITS[((k - 1) \div Len(RANKS)) + 1]
            rank == RANKS[((k - 1) % Len(RANKS)) + 1]
        IN  Card("deck-" \o ToString(i) \o "-" \o suit \o "-" \o rank, suit, rank)]

\* Two of each allowed special rank.
SpecialSet(i, allowedSpecialRanks) ==
    [k \in 1..(2 * Len(allowedSpecialRanks)) |->
        LET rank == allowedSpecialRanks[((k - 1) \div 2) + 1]
            copy == ((k - 1) % 2) + 1
        IN  Card("deck-" \o ToString(i) \o "-special-" \o rank \o "-" \o ToString(copy),
                 "Special", rank)]

RECURSIVE ConcatSets(_, _, _)
ConcatSets(Set(_), i, count) ==
    IF i >= count THEN <<>> ELSE Set(i) \o ConcatSets(Set, i + 1, count)

createDeck(mode, playerCount, allowedSpecialRanks) ==
    LET deckCount == IF playerCount >= 4 THEN 2 ELSE 1
        specialDecks == IF playerCount >= 4 THEN 2 ELSE 1
        Special(i) == SpecialSet(i, allowedSpecialRanks)
    IN  ConcatSets(StandardSet, 0, deckCount)
        \o (IF mode = "special" THEN ConcatSets(Special, 0, specialDecks) ELSE <<>>)

(***************************************************************************)
(* Math.random().  A call returns r / RandDenom for an r of Random; the    *)
(* index Math.floor(Math.random() * n) is then (r * n) \div RandDenom.     *)
(***************************************************************************)
Random == 0..(RandDenom - 1)
RandomIndex(r, n) == (r * n) \div RandDenom

\* Fisher-Yates from the last index down to 1 (0-based i and j); the model
\* draws one sample r per call and uses it in every iteration.
RECURSIVE FisherYates(_, _, _)
FisherYates(shuffled, i, r) ==
    IF i <= 0 THEN shuffled
    ELSE FisherYates([shuffled EXCEPT ![i + 1] = shuffled[RandomIndex(r, i + 1) + 1],
                                      ![RandomIndex(r, i + 1) + 1] = shuffled[i + 1]],
                     i - 1, r)

shuffleDeck(deck, r) == FisherYates(deck, Len(deck) - 1, r)

(***************************************************************************)
(* JavaScript arithmetic on numbers: + - * / with Infinity and NaN.        *)
(***************************************************************************)
Sign(x) == IF x < 0 THEN -1 ELSE IF x > 0 THEN 1 ELSE 0

JsNeg(a) ==
    CASE a.k = "num" -> Rat(-a.n, a.d)
      [] a.k = "inf" -> Infinity(-a.n)
      [] OTHER -> NaN

JsAdd(a, b) ==
    CASE a.k = "nan" \/ b.k = "nan" -> NaN
      [] a.k = "num" /\ b.k = "num" -> Rat(a.n * b.d + b.n * a.d, a.d * b.d)
      [] a.k = "inf" /\ b.k = "inf" -> IF a.n = b.n THEN a ELSE NaN
      [] a.k = "inf" -> a
      [] OTHER -> b

JsSub(a, b) == JsAdd(a, JsNeg(b))

JsMul(a, b) ==
    CASE a.k = "nan" \/ b.k = "nan" -> NaN
      [] a.k = "num" /\ b.k = "num" -> Rat(a.n * b.n, a.d * b.d)
      [] OTHER -> IF Sign(a.n) * Sign(b.n) = 0 THEN NaN
                  ELSE Infinity(Sign(a.n) * Sign(b.n))

JsDiv(a, b) ==
    CASE a.k = "nan" \/ b.k = "nan" -> NaN
      [] a.k = "num" /\ b.k = "num" ->
            IF b.n # 0 THEN Rat(a.n * b.d, a.d * b.n)
            ELSE IF a.n = 0 THEN NaN ELSE Infinity(Sign(a.n))
      [] a.k = "inf" /\ b.k = "inf" -> NaN
      [] a.k = "inf" -> Infinity(IF b.n < 0 THEN -a.n ELSE a.n)
      [] OTHER -> Num(0)

(***************************************************************************)
(* new Function(`return ${expression}`)() on the tokens of the expression: *)
(* the JavaScript grammar of numbers, + - * / and parentheses, evaluated   *)
(* by rewriting the leftmost redex of the highest precedence until none is *)
(* left.  A SyntaxError or TypeError leaves more than one token.           *)
(***************************************************************************)
IsValue(t) == t.k \in {"num", "inf", "nan"}
IsChar(t, chars) == t.k = "str" /\ t.s \in chars

\* The tokens of terms.join(' '): a negative number reads as '-' and its
\* magnitude.
RECURSIVE Lex(_, _)
Lex(terms, i) ==
    IF i > Len(terms) THEN <<>>
    ELSE (IF terms[i].k = "num" /\ terms[i].n < 0
          THEN <<Str("-"), [terms[i] EXCEPT !.n = -@]>>
          ELSE <<terms[i]>>)
         \o Lex(terms, i + 1)

Least(S) == CHOOSE x \in S : \A y \in S : x <= y

\* The redex to rewrite: ( value ), a sign before a value at the start of
\* an expression, value * / value, or value + - value between operands of
\* no higher precedence.
FirstRedex(group, unary, multiplicative, additive) ==
    IF group # {} THEN [kind |-> "group", i |-> Least(group)]
    ELSE IF unary # {} THEN [kind |-> "unary", i |-> Least(unary)]
    ELSE IF multiplicative \cup additive # {}
    THEN [kind |-> "binary",
          i |-> Least(IF multiplicative # {} THEN multiplicative ELSE additive)]
    ELSE [kind |-> "none", i |-> 0]

Redex(ts) ==
    LET n == Len(ts)
        Val(i) == i >= 1 /\ i <= n /\ IsValue(ts[i])
        Is(i, chars) == i >= 1 /\ i <= n /\ IsChar(ts[i], chars)
    IN  FirstRedex(
            {i \in 1..n : Is(i, {"("}) /\ Val(i + 1) /\ Is(i + 2, {")"})},
            {i \in 1..n : Is(i, {"+", "-"}) /\ Val(i + 1) /\ (i = 1 \/ Is(i - 1, {"("}))},
            {i \in 1..n : Val(i) /\ Is(i + 1, {"*", "/"}) /\ Val(i + 2)},
            {i \in 1..n : /\ Val(i) /\ Is(i + 1, {"+", "-"}) /\ Val(i + 2)
                          /\ ~Is(i - 1, {"+", "-", "*", "/"})
                          /\ ~Is(i + 3, {"*", "/"})})

\* The value of the redex made of tokens a b c (a b for a signed value).
RedexValue(kind, a, b, c) ==
    CASE kind = "group" -> b
      [] kind = "unary" -> IF a.s = "-" THEN JsNeg(b) ELSE b
      [] b.s = "+" -> JsAdd(a, c)
      [] b.s = "-" -> JsSub(a, c)
      [] b.s = "*" -> JsMul(a, c)
      [] OTHER -> JsDiv(a, c)

RECURSIVE JsReduce(_), JsRewrite(_, _)
JsRewrite(ts, redex) ==
    IF redex.kind = "none" THEN ts
    ELSE JsReduce(SubSeq(ts, 1, redex.i - 1)
                  \o <<RedexValue(redex.kind, ts[redex.i], ts[redex.i + 1],
                                  IF redex.kind = "unary" THEN NaN ELSE ts[redex.i + 2])>>
                  \o SubSeq(ts, redex.i + (IF redex.kind = "unary" THEN 2 ELSE 3), Len(ts)))

JsReduce(ts) == JsRewrite(ts, Redex(ts))

\* The value of the whole expression: ok = FALSE when evaluating it throws.
JsResult(out) ==
    IF Len(out) = 1 /\ IsValue(out[1]) THEN [ok |-> TRUE, v |-> out[1]]
    ELSE [ok |-> FALSE, v |-> NaN]

JsEval(ts) == JsResult(JsReduce(ts))

(***************************************************************************)
(* evaluateEquation (src/src/lib/game.ts).                                 *)
(***************************************************************************)
\* A rewrite pass that knows a number followed by '(' only.
ImplicitMultiplicationBeforeGroup(currentTerm, nextTerm) ==
    currentTerm.k = "num" /\ IsChar(nextTerm, {"("})

\* The token-rewrite pass of Pro and Special mode: a '*' after a number
\* followed by '(', and after ')' followed by a number or '('.
ImplicitMultiplication(currentTerm, nextTerm) ==
    \/ currentTerm.k = "num" /\ IsChar(nextTerm, {"("})
    \/ IsChar(currentTerm, {")"}) /\ (nextTerm.k = "num" \/ IsChar(nextTerm, {"("}))

RECURSIVE InsertMultiplication(_, _)
InsertMultiplication(terms, i) ==
    IF i > Len(terms) THEN <<>>
    ELSE <<terms[i]>>
         \o (IF ImplicitMultiplication(terms[i],
                                       IF i + 1 <= Len(terms) THEN terms[i + 1] ELSE NaN)
             THEN <<Str("*")>> ELSE <<>>)
         \o InsertMultiplication(terms, i + 1)

\* Popping back from a ')' to its '(': [parenCount, rest, group], where
\* group is expressionInParen and rest what is left of powerProcessedTerms.
RECURSIVE PopGroup(_, _, _)
PopGroup(rest, group, parenCount) ==
    IF parenCount > 0 /\ Len(rest) > 0
    THEN PopGroup(SubSeq(rest, 1, Len(rest) - 1), <<rest[Len(rest)]>> \o group,
                  IF IsChar(rest[Len(rest)], {"("}) THEN parenCount - 1
                  ELSE IF IsChar(rest[Len(rest)], {")"}) THEN parenCount + 1
                  ELSE parenCount)
    ELSE [parenCount |-> parenCount, rest |-> rest, group |-> group]

PowerError(error) == [ok |-> FALSE, terms |-> <<>>, error |-> error]

RECURSIVE evaluateEquation(_, _), PowerPass(_, _, _, _), PowerOfBase(_, _, _, _, _),
          PowerOfGroup(_, _, _, _), PowerOfResult(_, _, _, _, _)

\* The '**' pass: [ok, terms] or [ok = FALSE, error].
PowerPass(terms, i, powerProcessedTerms, mode) ==
    IF i > Len(terms) THEN [ok |-> TRUE, terms |-> powerProcessedTerms, error |-> NaN]
    ELSE IF ~IsChar(terms[i], {"**"})
    THEN PowerPass(terms, i + 1, Append(powerProcessedTerms, terms[i]), mode)
    ELSE IF Len(powerProcessedTerms) = 0
    THEN PowerError(Err("Power operator must follow a number or a group."))
    ELSE PowerOfBase(terms, i, mode, powerProcessedTerms[Len(powerProcessedTerms)],
                     SubSeq(powerProcessedTerms, 1, Len(powerProcessedTerms) - 1))

\* A power pass that doubles a number instead of squaring it.
PowerOfBaseDoubled(terms, i, mode, base, popped) ==
    IF IsChar(base, {")"}) THEN PowerOfGroup(terms, i, mode, PopGroup(popped, <<base>>, 1))
    ELSE IF base.k = "num"
    THEN PowerPass(terms, i + 1, Append(popped, JsMul(base, Num(2))), mode)
    ELSE PowerError(Err("Power operator must follow a number or a group."))

\* base is the popped term, popped what is left of powerProcessedTerms.
PowerOfBase(terms, i, mode, base, popped) ==
    IF IsChar(base, {")"}) THEN PowerOfGroup(terms, i, mode, PopGroup(popped, <<base>>, 1))
    ELSE IF base.k = "num"
    THEN PowerPass(terms, i + 1, Append(popped, JsMul(base, base)), mode)
    ELSE PowerError(Err("Power operator must follow a number or a group."))

PowerOfGroup(terms, i, mode, g) ==
    IF g.parenCount # 0 THEN PowerError(Err("Mismatched parentheses with power operator."))
    ELSE PowerOfResult(terms, i, mode, g.rest,
                       evaluateEquation(SubSeq(g.group, 2, Len(g.group) - 1), mode))

PowerOfResult(terms, i, mode, rest, subResult) ==
    IF subResult.k = "err" THEN PowerError(subResult)
    ELSE PowerPass(terms, i + 1, Append(rest, JsMul(subResult, subResult)), mode)

\* Easy mode: the position of the first term of the wrong type, 0 when none.
EasyAlternationFault(equation) ==
    LET wrong == {i \in 1..Len(equation) :
                     equation[i].k # (IF (i - 1) % 2 = 0 THEN "num" ELSE "str")}
    IN  IF wrong = {} THEN 0 ELSE Least(wrong)

\* The four tests on the joined expression, in the order they are made:
\* the error of the first that fails, NaN when all pass.
FinalValidation(ts) ==
    IF Cardinality({i \in 1..Len(ts) : IsChar(ts[i], {"("})})
           # Cardinality({i \in 1..Len(ts) : IsChar(ts[i], {")"})})
    THEN Err("Mismatched parentheses.")
    ELSE IF \E i \in 1..Len(ts) :
                ts[i].k = "str" /\ ts[i].s \notin {"+", "-", "*", "/", "(", ")"}
    THEN Err("Invalid characters in equation.")
    ELSE IF \E i \in 1..(Len(ts) - 1) :
                IsChar(ts[i], {"+", "-", "*", "/"}) /\ IsChar(ts[i + 1], {"+", "-", "*", "/"})
    THEN Err("Consecutive operators are not allowed.")
    ELSE IF \E i \in 1..(Len(ts) - 1) : IsChar(ts[i], {"("}) /\ IsChar(ts[i + 1], {")"})
    THEN Err("Empty parentheses are not allowed.")
    ELSE NaN

\* After the final validation: invalid is its error, result the value of
\* the expression.
EvaluationOutcome(invalid, result) ==
    IF invalid.k = "err" THEN invalid
    ELSE IF ~result.ok THEN Err("Invalid mathematical expression.")
    ELSE IF result.v.k # "num" THEN Err("Invalid calculation result.")
    ELSE result.v

EvaluateExpression(expression) ==
    EvaluationOutcome(FinalValidation(expression), JsEval(expression))

EvaluatePowered(power) ==
    IF ~power.ok THEN power.error ELSE EvaluateExpression(Lex(power.terms, 1))

EasyChecked(equation, mode, fault) ==
    IF mode = "easy" /\ fault # 0
    THEN Err("Invalid syntax. Expected "
             \o (IF (fault - 1) % 2 = 0 THEN "a number" ELSE "an operator")
             \o " at position " \o ToString(fault) \o ".")
    ELSE EvaluatePowered(PowerPass(IF mode = "pro" \/ mode = "special"
                                   THEN InsertMultiplication(equation, 1) ELSE equation,
                                   1, <<>>, mode))

evaluateEquation(equation, mode) ==
    IF Len(equation) = 0 THEN Err("Equation is empty.")
    ELSE IF mode = "easy" /\ Len(equation) = 1 /\ equation[1].k = "num" THEN equation[1]
    ELSE IF mode = "easy" /\ Len(equation) < 3
    THEN Err("An equation must have at least 3 terms.")
    ELSE EasyChecked(equation, mode, EasyAlternationFault(equation))

(***************************************************************************)
(* calculateScore (src/src/lib/game.ts).                                   *)
(***************************************************************************)
\* Math.round of the rational n/d: the integer nearest to it, halves up.
MathRound(v) == (2 * v.n + v.d) \div (2 * v.d)

\* A score function without the rule for a pass.
calculateScoreOfPlay(result, target, cardsUsed) ==
    LET diff == JsSub(result, Num(target))
        difference == IF diff.n < 0 THEN JsNeg(diff) ELSE diff
    IN  IF difference.n = 0 /\ cardsUsed > 0 THEN 1000 - (cardsUsed * 20)
        ELSE LET raw == JsSub(JsSub(Num(500), JsMul(difference, Num(10))),
                              Num(cardsUsed * 20))
                 score == IF raw.n < 0 THEN Num(0) ELSE raw
             IN  MathRound(score)

\* result is a finite number, target an integer, cardsUsed a count.
calculateScore(result, target, cardsUsed) ==
    IF result.n = 0 /\ cardsUsed = 0 THEN 0
    ELSE LET diff == JsSub(result, Num(target))
             difference == IF diff.n < 0 THEN JsNeg(diff) ELSE diff
         IN  IF difference.n = 0 /\ cardsUsed > 0 THEN 1000 - (cardsUsed * 20)
             ELSE LET raw == JsSub(JsSub(Num(500), JsMul(difference, Num(10))),
                                   Num(cardsUsed * 20))
                      score == IF raw.n < 0 THEN Num(0) ELSE raw
                  IN  MathRound(score)

(***************************************************************************)
(* Target generation (src/src/lib/game.ts).                                *)
(***************************************************************************)
MAX_ATTEMPTS == 50
FALLBACK_TARGET == 10

TargetResult(target, cardsUsed, updatedDeck) ==
    [target |-> target, cardsUsed |-> cardsUsed, updatedDeck |-> updatedDeck]

\* deck.filter(c => !cardsUsedIds.has(c.id))
WithoutIds(deck, ids) == SelectSeq(deck, LAMBDA c : c.id \notin ids)

\* One pass of the body of the while loop of generateEasyTarget over a copy
\* of currentDeck: [done, result, cardsUsed], done = FALSE standing for
\* `continue`.
EasySkip == [done |-> FALSE, result |-> NaN, cardsUsed |-> <<>>]

EasyEvaluated(CARD_VALUES, numCard1, opCard, numCard2) ==
    [done |-> TRUE,
     result |-> evaluateEquation(<<CARD_VALUES[numCard1.rank], CARD_VALUES[opCard.rank],
                                   CARD_VALUES[numCard2.rank]>>, "easy"),
     cardsUsed |-> <<numCard1, opCard, numCard2>>]

\* if (operator === '-' && term1 < term3) the two number cards trade places.
EasyOrdered(CARD_VALUES, numCard1, opCard, numCard2, swap) ==
    EasyEvaluated(CARD_VALUES, IF swap THEN numCard2 ELSE numCard1, opCard,
                  IF swap THEN numCard1 ELSE numCard2)

EasySecondNumber(tempDeck, CARD_VALUES, numCard1, opCard, numIndex2) ==
    IF numIndex2 = 0 THEN EasySkip
    ELSE EasyOrdered(CARD_VALUES, numCard1, opCard, tempDeck[numIndex2],
                     /\ CARD_VALUES[opCard.rank].s = "-"
                     /\ CARD_VALUES[numCard1.rank].n < CARD_VALUES[tempDeck[numIndex2].rank].n)

EasyAfterOperator(tempDeck, CARD_VALUES, numCard1, opCard) ==
    EasySecondNumber(tempDeck, CARD_VALUES, numCard1, opCard,
                     FindIndex(tempDeck, LAMBDA c : CARD_VALUES[c.rank].k = "num"))

EasyOperator(tempDeck, CARD_VALUES, numCard1, opIndex) ==
    IF opIndex = 0 THEN EasySkip
    ELSE EasyAfterOperator(RemoveAt(tempDeck, opIndex), CARD_VALUES, numCard1,
                           tempDeck[opIndex])

EasyAfterFirstNumber(tempDeck, CARD_VALUES, numCard1) ==
    EasyOperator(tempDeck, CARD_VALUES, numCard1,
                 FindIndex(tempDeck, LAMBDA c : /\ CARD_VALUES[c.rank].k = "str"
                                                /\ CARD_VALUES[c.rank].s \in {"+", "-"}))

EasyFirstNumber(tempDeck, CARD_VALUES, numIndex1) ==
    IF numIndex1 = 0 THEN EasySkip
    ELSE EasyAfterFirstNumber(RemoveAt(tempDeck, numIndex1), CARD_VALUES,
                              tempDeck[numIndex1])

EasyAttempt(currentDeck, CARD_VALUES) ==
    EasyFirstNumber(currentDeck, CARD_VALUES,
                    FindIndex(currentDeck, LAMBDA c : CARD_VALUES[c.rank].k = "num"))

\* result > 0 && result <= 100 && Number.isInteger(result)
IsValidTarget(v) == v.k = "num" /\ v.d = 1 /\ v.n > 0 /\ v.n <= 100

\* The variables of the while loop: result is a valid target or NaN for
\* null.
EasyStart(deck) ==
    [result |-> NaN, cardsUsed |-> <<>>, currentDeck |-> deck, attempts |-> 0]

\* A pass that finds a target and forgets to take its cards off the deck.
EasyPassKeepsDeck(deck, loop, attempt) ==
    IF attempt.done /\ IsValidTarget(attempt.result)
    THEN [loop EXCEPT !.attempts = @ + 1, !.result = attempt.result,
                      !.cardsUsed = attempt.cardsUsed]
    ELSE [loop EXCEPT !.attempts = @ + 1, !.result = NaN]

\* The body of the loop, attempt being what it computed from its copy of
\* currentDeck: a `continue` and a result that is no target leave the deck
\* and cardsUsed as they were.
EasyPass(deck, loop, attempt) ==
    IF attempt.done /\ IsValidTarget(attempt.result)
    THEN [loop EXCEPT !.attempts = @ + 1, !.result = attempt.result,
                      !.cardsUsed = attempt.cardsUsed,
                      !.currentDeck = WithoutIds(deck, Ids(attempt.cardsUsed))]
    ELSE [loop EXCEPT !.attempts = @ + 1, !.result = NaN]

\* The test of the while loop and, when it holds, one pass.
EasyStep(deck, loop, CARD_VALUES) ==
    IF ~IsValidTarget(loop.result) /\ loop.attempts < MAX_ATTEMPTS
    THEN EasyPass(deck, loop, EasyAttempt(loop.currentDeck, CARD_VALUES))
    ELSE loop

\* The while loop: attempts < 50 ends it after MAX_ATTEMPTS passes at the
\* latest, so it is `passes` tests of its condition.  They are run half by
\* half, the second half from the outcome `half` of the first, which keeps
\* the evaluation by TLC shallow.
RECURSIVE EasyLoop(_, _, _, _)
EasyLoop(deck, loop, CARD_VALUES, passes) ==
    IF passes = 1 THEN EasyStep(deck, loop, CARD_VALUES)
    ELSE CHOOSE out \in {EasyLoop(deck, half, CARD_VALUES, passes - passes \div 2) :
                             half \in {EasyLoop(deck, loop, CARD_VALUES, passes \div 2)}} :
             TRUE

\* A generator without the fallback.
EasyTargetWithoutFallback(deck, out) ==
    TargetResult(out.result.n, out.cardsUsed, out.currentDeck)

EasyTarget(deck, out) ==
    IF out.result.k # "num" \/ Len(out.cardsUsed) = 0
    THEN TargetResult(FALLBACK_TARGET, <<>>, deck)
    ELSE TargetResult(out.result.n, out.cardsUsed, out.currentDeck)

generateEasyTarget(deck, mode) ==
    EasyTarget(deck, EasyLoop(deck, EasyStart(deck), getCardValues(mode), MAX_ATTEMPTS))

\* The value of attempts when the while loop of generateEasyTarget ends.
EasyAttempts(deck, mode) ==
    EasyLoop(deck, EasyStart(deck), getCardValues(mode), MAX_ATTEMPTS).attempts

\* parseInt(`${val1}${val2}`, 10) for two card values in 1..10.
ConcatDigits(val1, val2) == IF val2 >= 10 THEN val1 * 100 + val2 ELSE val1 * 10 + val2

\* currentDeck.filter(c => typeof CARD_VALUES[c.rank] === 'number' && c.suit !== 'Special')
NumberCards(deck, CARD_VALUES) ==
    SelectSeq(deck, LAMBDA c : CARD_VALUES[c.rank].k = "num" /\ c.suit # "Special")

\* A pick that takes only its first card off the deck.
ProTargetKeepsSecondCard(deck, CARD_VALUES, card1, card2) ==
    TargetResult(ConcatDigits(CARD_VALUES[card1.rank].n, CARD_VALUES[card2.rank].n),
                 <<card1, card2>>, WithoutIds(deck, {card1.id}))

\* The target, the cards used and the deck filtered by their ids.
ProTarget(deck, CARD_VALUES, card1, card2) ==
    TargetResult(ConcatDigits(CARD_VALUES[card1.rank].n, CARD_VALUES[card2.rank].n),
                 <<card1, card2>>, WithoutIds(deck, {card1.id, card2.id}))

ProPick(deck, mode, numberCards, r1, r2) ==
    IF Len(numberCards) < 2 THEN generateEasyTarget(deck, mode)
    ELSE ProTarget(deck, getCardValues(mode),
                   numberCards[RandomIndex(r1, Len(numberCards)) + 1],
                   numberCards[RandomIndex(r2, Len(numberCards)) + 1])

\* r1 and r2 are the samples behind card1Index and the card2Index that
\* ends the redraw loop, which is any sample giving a different index.
generateProTarget(deck, mode, r1, r2) ==
    ProPick(deck, mode, NumberCards(deck, getCardValues(mode)), r1, r2)

\* The samples for which the redraw loop of generateProTarget has ended.
ProSamples(deck, mode) ==
    LET n == Len(NumberCards(deck, getCardValues(mode)))
    IN  {rr \in Random \X Random : n < 2 \/ RandomIndex(rr[1], n) # RandomIndex(rr[2], n)}

\* The target of either generator is a number, so the isNaN fallback of
\* generateTarget is never taken.
generateTarget(deck, mode, playerCount, r1, r2) ==
    IF mode = "pro" \/ mode = "special"
    THEN generateProTarget(deck, mode, r1, r2)
    ELSE generateEasyTarget(deck, mode)

\* The decks and targets of startGame and nextRound, tabulated once.
FreshDecks ==
    [mode \in {"easy", "pro", "special"}, playerCount \in 1..MaxLobby, r \in Random |->
        shuffleDeck(createDeck(mode, playerCount, SPECIAL_RANKS), r)]

FreshTargets ==
    [mode \in {"easy", "pro", "special"}, playerCount \in 1..MaxLobby,
     r \in Random, r1 \in Random, r2 \in Random |->
        generateTarget(FreshDecks[mode, playerCount, r], mode, playerCount, r1, r2)]

\* The samples generateTarget draws: none in Easy mode.
FreshSamples ==
    [mode \in {"easy", "pro", "special"}, playerCount \in 1..MaxLobby, r \in Random |->
        IF mode = "easy" THEN {<<0, 0>>}
        ELSE ProSamples(FreshDecks[mode, playerCount, r], mode)]

(***************************************************************************)
(* The persisted state (src/src/lib/types.ts Game and Player) and the      *)
(* calls in flight.                                                        *)
(***************************************************************************)
VARIABLES
    game,        \* the game document
    players,     \* the player documents of the game, by document id
    joining,     \* joinGame calls between their name query and their transaction
    advancing,   \* flows between their own transaction and their advanceTurn
    resolved,     \* whether the pending special action has been resolved
    specialPlays, \* how many special cards have been played so far
    offProtocol, \* how many calls so far were made out of turn or out of state
    probe        \* a call of a function of src/src/lib/game.ts: its arguments and result

vars == <<game, players, joining, advancing, resolved, specialPlays, offProtocol, probe>>

\* The clients: a call is in protocol when it is made by the player and in
\* the state the operation is for.  The other calls are counted and bounded, and
\* they are the last calls of a run: after them only the flows in flight
\* complete.  A special card played counts against the same bound.
Protocol(offered) ==
    /\ IF offered THEN offProtocol = 0 /\ offProtocol' = offProtocol
       ELSE offProtocol + specialPlays < MaxOffProtocol /\ offProtocol' = offProtocol + 1
    /\ UNCHANGED probe

PlayerIds == 1..NumIds
Names == {"ann", "bob"}
Modes == {"easy", "pro", "special"}

\* null / undefined of an optional field.
NoPlayer == 0
NoSpecialAction == [playerId |-> NoPlayer, cardRank |-> ""]

\* The documents a players query returns, in document-id order.
RECURSIVE SortedIds(_)
SortedIds(ids) ==
    IF ids = {} THEN <<>>
    ELSE LET least == CHOOSE i \in ids : \A j \in ids : i <= j
         IN  <<least>> \o SortedIds(ids \ {least})

PlayerDocs == SortedIds(DOMAIN players)

NewPlayer(name) ==
    [name |-> name, hand |-> <<>>, roundScore |-> 0, totalScore |-> 0,
     passed |-> FALSE, finalResult |-> Num(0), equation |-> <<>>, cardsUsed |-> <<>>]

\* The game document createGame writes.
NewGame(creatorId) ==
    [creatorId |-> creatorId,
     gameState |-> "lobby",
     gameMode |-> "easy",
     players |-> <<creatorId>>,
     maxPlayers |-> 8,
     deck |-> <<>>,
     targetNumber |-> 0,
     targetCards |-> <<>>,
     currentPlayerId |-> creatorId,
     currentRound |-> 1,
     totalRounds |-> 3,
     targetScore |-> 0,
     roundWinnerIds |-> <<>>,
     specialAction |-> NoSpecialAction,
     discardingPlayerId |-> NoPlayer]

\* createGame: the state after construction.
Created ==
    LET creatorId == 1
    IN  /\ game = NewGame(creatorId)
        /\ players = [p \in {creatorId} |-> NewPlayer("ann")]
        /\ joining = <<>>
        /\ advancing = {}
        /\ resolved = FALSE
        /\ specialPlays = 0
        /\ offProtocol = 0

\* No function of the library is being examined: the flows leave probe alone.
Init == Created /\ probe = [fn |-> "none"]

(***************************************************************************)
(* joinGame: the name query, then the transaction.                         *)
(***************************************************************************)
JoinGameQuery(playerName) ==
    /\ Cardinality(DOMAIN players) + Len(joining) < NumIds
    /\ IF \E p \in DOMAIN players : players[p].name = playerName
       THEN UNCHANGED joining        \* "A player with this name is already in the game."
       ELSE joining' = Append(joining, playerName)
    /\ UNCHANGED <<game, players, advancing, resolved, specialPlays>>

JoinGameTransaction(i, newPlayerId) ==
    /\ i \in 1..Len(joining)
    \* doc(playersRef).id: document ids are issued in increasing order
    /\ newPlayerId \in PlayerIds \ DOMAIN players
    /\ \A p \in PlayerIds \ DOMAIN players : newPlayerId <= p
    /\ joining' = RemoveAt(joining, i)
    /\ IF game.gameState # "lobby" \/ Len(game.players) >= game.maxPlayers
       THEN UNCHANGED <<game, players>>   \* "Game has already started." / "Game is full."
       ELSE /\ players' = [p \in DOMAIN players \cup {newPlayerId} |->
                              IF p = newPlayerId THEN NewPlayer(joining[i]) ELSE players[p]]
            /\ game' = [game EXCEPT !.players = Append(@, newPlayerId)]
    /\ UNCHANGED <<advancing, resolved, specialPlays, offProtocol, probe>>

(***************************************************************************)
(* setGameMode: one updateDoc.                                             *)
(***************************************************************************)
SetGameMode(mode) ==
    /\ game' = IF mode = "special"
               THEN [game EXCEPT !.gameMode = mode, !.totalRounds = 99, !.targetScore = 3000]
               ELSE [game EXCEPT !.gameMode = mode, !.totalRounds = 3, !.targetScore = 0]
    /\ UNCHANGED <<players, joining, advancing, resolved, specialPlays>>

(***************************************************************************)
(* Dealing, shared by startGame and nextRound.                             *)
(***************************************************************************)
\* players.forEach(p => freshDeck.splice(0, n)) over the documents in order:
\* [hands, deck], hands keeping or replacing what each player holds.
RECURSIVE DealEach(_, _, _, _, _)
DealEach(docs, i, n, keepHand, acc) ==
    IF i > Len(docs) THEN acc
    ELSE LET p == docs[i]
             dealt == Take(acc.deck, n)
             hand == IF keepHand THEN players[p].hand \o dealt ELSE dealt
         IN  DealEach(docs, i + 1, n, keepHand,
                      [hands |-> [acc.hands EXCEPT ![p] = hand],
                       deck |-> Drop(acc.deck, n)])

Deal(deck, n, keepHand) ==
    DealEach(PlayerDocs, 1, n, keepHand,
             [hands |-> [p \in DOMAIN players |-> <<>>], deck |-> deck])

StarterCardWithheld(dealt, firstPlayerId) == dealt

\* The starting card of the first player, when the deck has one.
StarterCard(dealt, firstPlayerId) ==
    IF Len(dealt.deck) > 0 /\ firstPlayerId \in DOMAIN players
    THEN [hands |-> [dealt.hands EXCEPT ![firstPlayerId] = Append(@, dealt.deck[1])],
          deck |-> Tail(dealt.deck)]
    ELSE dealt

(***************************************************************************)
(* startGame: one transaction.                                             *)
(***************************************************************************)
StartGame(r, r1, r2) ==
    LET playerCount == Len(PlayerDocs)
        t == FreshTargets[game.gameMode, playerCount, r, r1, r2]
        firstPlayerId == game.players[1]
        dealt == StarterCard(Deal(t.updatedDeck, 5, FALSE), firstPlayerId)
    IN  /\ <<r1, r2>> \in FreshSamples[game.gameMode, playerCount, r]
        /\ Len(joining) = 0
        /\ players' = [p \in DOMAIN players |->
                          [players[p] EXCEPT !.hand = dealt.hands[p], !.roundScore = 0,
                                             !.passed = FALSE, !.finalResult = Num(0),
                                             !.equation = <<>>]]
        /\ game' = [game EXCEPT !.gameState = "playerTurn", !.deck = dealt.deck,
                                !.targetNumber = t.target, !.targetCards = t.cardsUsed,
                                !.currentPlayerId = firstPlayerId, !.currentRound = 1]
        /\ UNCHANGED <<joining, advancing, resolved, specialPlays>>

(***************************************************************************)
(* advanceTurn: one transaction, run by playerAction and by                *)
(* resolveSpecialCard after their own transaction has committed.           *)
(***************************************************************************)
\* A flow about to run advanceTurn; read is what its advanceTurn has read so
\* far: nothing, or the game document and the player documents.
Call(flow, playerId, ignored) ==
    [flow |-> flow, playerId |-> playerId, ignored |-> ignored, read |-> <<>>]

SeqToSet(s) == {s[i] : i \in 1..Len(s)}

MaxOf(S) == CHOOSE m \in S : \A x \in S : x <= m

\* A rotation to the player next in game.players, passed or not.
NextInOrder(docs) ==
    LET n == Len(game.players)
        currentPlayerIndex ==
            FindIndex(game.players, LAMBDA id : id = game.currentPlayerId) - 1
    IN  game.players[((currentPlayerIndex + 1) % n) + 1]

\* The next player after the current one, in the cyclic order of
\* game.players, who has a document and has not passed; NoPlayer when none.
\* In what follows docs are the player documents advanceTurn has read
\* (getDocs, line 241) and game is the game document of its transaction.
NextUnpassedOf(docs) ==
    LET n == Len(game.players)
        currentPlayerIndex ==   \* game.players.indexOf(game.currentPlayerId)
            FindIndex(game.players, LAMBDA id : id = game.currentPlayerId) - 1
        candidates == [k \in 1..n |-> game.players[((currentPlayerIndex + k) % n) + 1]]
        found == FindIndex(candidates,
                           LAMBDA q : q \in DOMAIN docs /\ ~docs[q].passed)
    IN  IF found = 0 THEN NoPlayer ELSE candidates[found]

\* Each update writes one field of a document: totalScore here.
RoundEndOf(docs) ==
    LET tallied == [p \in DOMAIN players |->
                       IF p \in DOMAIN docs
                       THEN [players[p] EXCEPT
                                !.totalScore = docs[p].totalScore + docs[p].roundScore]
                       ELSE players[p]]
        winner == \E p \in DOMAIN docs :
                     docs[p].totalScore + docs[p].roundScore >= game.targetScore
        highestScore == MaxOf({docs[p].roundScore : p \in DOMAIN docs})
        winners == SelectSeq(SortedIds(DOMAIN docs),
                             LAMBDA p : docs[p].roundScore = highestScore)
        roundWinnerIds == IF highestScore > 0 THEN winners ELSE <<>>
    IN  /\ players' = tallied
        /\ game' = IF game.gameMode = "special" /\ game.targetScore # 0 /\ winner
                   THEN [game EXCEPT !.gameState = "gameOver"]
                   ELSE [game EXCEPT !.gameState = "roundOver",
                                     !.roundWinnerIds = roundWinnerIds]

\* The hand written is the hand read with the new card.
TurnRotationOf(docs) ==
    LET nextPlayerId == NextUnpassedOf(docs)
    IN  IF nextPlayerId = NoPlayer THEN UNCHANGED <<game, players>>
        ELSE IF Len(game.deck) > 0
        THEN /\ Len(docs[nextPlayerId].hand) < MaxHand
             /\ players' = [players EXCEPT ![nextPlayerId].hand =
                                              Append(docs[nextPlayerId].hand, game.deck[1])]
             /\ game' = [game EXCEPT !.currentPlayerId = nextPlayerId, !.deck = Tail(@)]
        ELSE /\ game' = [game EXCEPT !.currentPlayerId = nextPlayerId]
             /\ UNCHANGED players

\* advanceTurn as one step: its reads and its writes together.
AdvanceTurn(call) ==
    /\ call \in advancing
    /\ call.read = <<>>
    /\ advancing' = advancing \ {call}
    /\ IF \A p \in DOMAIN players : players[p].passed THEN RoundEndOf(players)
       ELSE TurnRotationOf(players)
    /\ UNCHANGED <<joining, resolved, specialPlays, offProtocol, probe>>

\* advanceTurn as two steps.  The game document is read with
\* transaction.get, the player documents with getDocs: a query is not part
\* of the transaction, so only a change of the game document makes the
\* transaction run again.
AdvanceTurnRead(call) ==
    /\ call \in advancing
    /\ call.read = <<>>
    /\ advancing' = (advancing \ {call}) \cup {[call EXCEPT !.read = <<game, players>>]}
    /\ UNCHANGED <<game, players, joining, resolved, specialPlays, offProtocol, probe>>

AdvanceTurnCommit(call) ==
    /\ call \in advancing
    /\ call.read # <<>>
    /\ IF call.read[1] # game
       THEN /\ advancing' = (advancing \ {call}) \cup {[call EXCEPT !.read = <<>>]}
            /\ UNCHANGED <<game, players>>
       ELSE /\ advancing' = advancing \ {call}
            /\ IF \A p \in DOMAIN call.read[2] : call.read[2][p].passed
               THEN RoundEndOf(call.read[2])
               ELSE TurnRotationOf(call.read[2])
    /\ UNCHANGED <<joining, resolved, specialPlays, offProtocol, probe>>

(***************************************************************************)
(* playerAction: its transaction; advanceTurn follows unless it threw.     *)
(***************************************************************************)
\* What a client submits: the target itself as a one-term equation, and two
\* numbers in a row (which no mode accepts).
EquationInputs == {<<Num(game.targetNumber)>>, <<Num(5), Num(5)>>}

\* The inputs of playerAction: a pass, or a submission of an equation.
ActionInputs ==
    {[action |-> "pass", equation |-> <<>>]}
    \cup {[action |-> "submit", equation |-> equation] : equation \in EquationInputs}

\* The cards a client names as used: one card of its hand per term.
CardsUsedInput(playerId, equation) == Take(players[playerId].hand, Len(equation))

PlayerActionIgnored(playerId) ==
    /\ playerId \in DOMAIN players
    /\ game.currentPlayerId # playerId
    /\ advancing' = advancing \cup {Call("playerAction", playerId, TRUE)}
    /\ UNCHANGED <<game, players, joining, resolved, specialPlays>>

PlayerActionSubmit(playerId, equation, cardsUsed) ==
    LET result == evaluateEquation(equation, game.gameMode)
        newScore == calculateScore(result, game.targetNumber, Len(cardsUsed))
        newHand == WithoutIds(players[playerId].hand, Ids(cardsUsed))
    IN  /\ playerId \in DOMAIN players
        /\ game.currentPlayerId = playerId
        /\ IF IsError(result)
           THEN UNCHANGED <<players, advancing>>     \* "Invalid equation submitted"
           ELSE /\ players' = [players EXCEPT ![playerId] =
                                  [@ EXCEPT !.roundScore = newScore, !.finalResult = result,
                                            !.equation = equation, !.cardsUsed = cardsUsed,
                                            !.hand = newHand, !.passed = TRUE]]
                /\ advancing' = advancing \cup {Call("playerAction", playerId, FALSE)}
        /\ UNCHANGED <<game, joining, resolved, specialPlays>>

PlayerActionPass(playerId) ==
    /\ playerId \in DOMAIN players
    /\ game.currentPlayerId = playerId
    /\ players' = [players EXCEPT ![playerId] =
                      [@ EXCEPT !.passed = TRUE, !.equation = <<>>, !.cardsUsed = <<>>,
                                !.finalResult = Num(0), !.roundScore = 0]]
    /\ advancing' = advancing \cup {Call("playerAction", playerId, FALSE)}
    /\ UNCHANGED <<game, joining, resolved, specialPlays>>

PlayerAction(playerId, action, equation, cardsUsed) ==
    \/ PlayerActionIgnored(playerId)
    \/ action = "submit" /\ PlayerActionSubmit(playerId, equation, cardsUsed)
    \/ action = "pass" /\ PlayerActionPass(playerId)

(***************************************************************************)
(* nextRound: one transaction.                                             *)
(***************************************************************************)
HAND_LIMIT == 10

\* The first player, in document order, whose new hand exceeds the limit.
PlayerToDiscard(hands) ==
    LET found == FindIndex(PlayerDocs, LAMBDA p : Len(hands[p]) > HAND_LIMIT)
    IN  IF found = 0 THEN NoPlayer ELSE PlayerDocs[found]

NextRound(r, r1, r2) ==
    IF game.gameMode # "special" /\ game.currentRound >= game.totalRounds
    THEN /\ game' = [game EXCEPT !.gameState = "gameOver"]
         /\ UNCHANGED <<players, joining, advancing, resolved, specialPlays>>
    ELSE
    LET playerCount == Len(PlayerDocs)
        t == FreshTargets[game.gameMode, playerCount, r, r1, r2]
        firstPlayerId == game.players[1]
        dealt == IF game.gameMode = "special"
                 THEN Deal(t.updatedDeck, 3, TRUE)
                 ELSE StarterCard(Deal(t.updatedDeck, 5, FALSE), firstPlayerId)
        playerToDiscard == IF game.gameMode = "special"
                           THEN PlayerToDiscard(dealt.hands) ELSE NoPlayer
    IN  /\ \A p \in DOMAIN players : Len(dealt.hands[p]) <= MaxHand
        /\ <<r1, r2>> \in FreshSamples[game.gameMode, playerCount, r]
        /\ players' = [p \in DOMAIN players |->
                          [players[p] EXCEPT !.hand = dealt.hands[p], !.roundScore = 0,
                                             !.passed = FALSE, !.finalResult = Num(0),
                                             !.equation = <<>>, !.cardsUsed = <<>>]]
        /\ game' = IF playerToDiscard # NoPlayer
                   THEN [game EXCEPT !.gameState = "discarding",
                                     !.discardingPlayerId = playerToDiscard,
                                     !.deck = dealt.deck, !.targetNumber = t.target,
                                     !.targetCards = t.cardsUsed,
                                     !.currentPlayerId = playerToDiscard,
                                     !.currentRound = @ + 1, !.roundWinnerIds = <<>>]
                   ELSE [game EXCEPT !.gameState = "playerTurn",
                                     !.deck = dealt.deck, !.targetNumber = t.target,
                                     !.targetCards = t.cardsUsed,
                                     !.currentPlayerId = game.players[1],
                                     !.currentRound = @ + 1, !.roundWinnerIds = <<>>]
        /\ UNCHANGED <<joining, advancing, resolved, specialPlays>>

(***************************************************************************)
(* discardCards: one transaction.                                          *)
(***************************************************************************)
\* What a client offers to discard: the first three cards of its hand, the
\* last three, or only two.
\* A card that is in no hand.
MissingCard == Card("missing", "Special", "SH")

DiscardInputs(playerId) ==
    LET hand == players[playerId].hand
    IN  {Take(hand, 3), SubSeq(hand, (IF 3 < Len(hand) THEN Len(hand) - 3 ELSE 0) + 1, Len(hand)),
         Take(hand, 2), Append(Take(hand, 2), MissingCard)}

DiscardCards(playerId, cardsToDiscard) ==
    LET newHand == WithoutIds(players[playerId].hand, Ids(cardsToDiscard))
    IN  /\ playerId \in DOMAIN players
        /\ IF \/ game.gameState # "discarding" \/ game.discardingPlayerId # playerId
              \/ Len(cardsToDiscard) # 3
              \/ Len(newHand) # Len(players[playerId].hand) - 3
           THEN UNCHANGED <<game, players>>      \* the transaction throws
           ELSE /\ players' = [players EXCEPT ![playerId].hand = newHand]
                /\ game' = [game EXCEPT !.gameState = "playerTurn",
                                        !.discardingPlayerId = NoPlayer,
                                        !.currentPlayerId = game.players[1]]
        /\ UNCHANGED <<joining, advancing, resolved, specialPlays>>

(***************************************************************************)
(* playSpecialCard: one transaction.                                       *)
(***************************************************************************)

\* The cards a client plays: the special cards of its hand, or a card it
\* does not hold.
SpecialCardInputs(playerId) ==
    {c \in SeqToSet(players[playerId].hand) : c.suit = "Special"} \cup {MissingCard}

PlaySpecialCard(playerId, card, r) ==
    LET hand == players[playerId].hand
        cardIndex == FindIndex(hand, LAMBDA c : c.id = card.id)
        newHandBeforeShuffle == RemoveAt(hand, cardIndex)
        cardRank == card.rank
        newDeck == shuffleDeck(game.deck \o hand, r)
        handSize == Len(hand)
    IN  /\ playerId \in DOMAIN players
        /\ IF cardIndex = 0
           THEN UNCHANGED <<game, players, resolved, specialPlays>>   \* "Card not in hand"
           ELSE IF cardRank = "SH"
           THEN /\ players' = [players EXCEPT ![playerId].hand = Take(newDeck, handSize)]
                /\ game' = [game EXCEPT !.deck = Drop(newDeck, handSize)]
                /\ specialPlays' = specialPlays + 1
                /\ UNCHANGED resolved
           ELSE /\ players' = [players EXCEPT ![playerId].hand = newHandBeforeShuffle]
                /\ game' = [game EXCEPT !.gameState = "specialAction",
                                        !.specialAction = [playerId |-> playerId,
                                                           cardRank |-> cardRank]]
                /\ specialPlays' = specialPlays + 1
                /\ resolved' = FALSE
        /\ UNCHANGED <<joining, advancing>>

(***************************************************************************)
(* resolveSpecialCard: its transaction; advanceTurn follows when the card  *)
(* ends the turn.                                                          *)
(***************************************************************************)
\* parseInt(cardValues.join(''), 10): the decimal digits up to the first
\* value that is not a number.
RECURSIVE ParseJoined(_, _, _)
ParseJoined(values, i, acc) ==
    IF i > Len(values) \/ ~IsNumber(values[i]) THEN acc
    ELSE ParseJoined(values, i + 1, ConcatDigits(acc, values[i].n))

\* The call is in protocol: the pending special action is
\* this player's and this card's, and it has not been resolved yet.
ResolveOffered(playerId, cardRank) ==
    /\ game.gameState = "specialAction"
    /\ game.specialAction = [playerId |-> playerId, cardRank |-> cardRank]
    /\ ~resolved

\* case 'CL': target is the card to clone, now the value of Date.now().
ResolveClone(playerId, target, now) ==
    LET clonedCard == [target EXCEPT !.id = "cloned-" \o ToString(now)]
    IN  /\ Len(players[playerId].hand) < MaxHand
        /\ players' = [players EXCEPT ![playerId].hand = Append(@, clonedCard)]
        /\ resolved' = TRUE
        /\ UNCHANGED <<game, advancing>>

\* case 'SB': target is the id of the sabotaged player, r the sample behind
\* cardToRemoveIndex.  The turn ends: the acting player is marked passed.
ResolveSabotage(playerId, targetPlayerId, r) ==
    LET hand == players[targetPlayerId].hand
        afterSabotage ==
            IF Len(hand) > 0
            THEN [players EXCEPT ![targetPlayerId].hand =
                                     RemoveAt(hand, RandomIndex(r, Len(hand)) + 1)]
            ELSE players
    IN  /\ targetPlayerId \in DOMAIN players
        /\ players' = [afterSabotage EXCEPT ![playerId].passed = TRUE]
        /\ advancing' = advancing \cup {Call("resolveSpecialCard", playerId, FALSE)}
        /\ resolved' = TRUE
        /\ UNCHANGED game

\* A Destiny that copies the replacement card and leaves it in the deck.
ResolveDestinyKeepsDeck(playerId, targetCardIndex) ==
    LET CARD_VALUES == getCardValues(game.gameMode)
        replacementCardIndex ==
            FindIndex(game.deck, LAMBDA c : IsNumber(CARD_VALUES[c.rank]))
        newCard == game.deck[replacementCardIndex]
        newTargetCards ==
            IF targetCardIndex + 1 <= Len(game.targetCards)
            THEN [game.targetCards EXCEPT ![targetCardIndex + 1] = newCard]
            ELSE Append(game.targetCards, newCard)
        cardValues == [i \in 1..Len(newTargetCards) |-> CARD_VALUES[newTargetCards[i].rank]]
    IN  /\ IF replacementCardIndex = 0
           THEN UNCHANGED <<game, resolved>>
           ELSE /\ game' = [game EXCEPT !.targetCards = newTargetCards,
                                        !.targetNumber = ParseJoined(cardValues, 1, 0)]
                /\ resolved' = TRUE
        /\ UNCHANGED <<players, advancing>>

\* case 'DE': target is the 0-based index of the target card to replace.
ResolveDestiny(playerId, targetCardIndex) ==
    LET CARD_VALUES == getCardValues(game.gameMode)
        replacementCardIndex ==
            FindIndex(game.deck, LAMBDA c : IsNumber(CARD_VALUES[c.rank]))
        newCard == game.deck[replacementCardIndex]
        newTargetCards ==
            IF targetCardIndex + 1 <= Len(game.targetCards)
            THEN [game.targetCards EXCEPT ![targetCardIndex + 1] = newCard]
            ELSE Append(game.targetCards, newCard)
        cardValues == [i \in 1..Len(newTargetCards) |-> CARD_VALUES[newTargetCards[i].rank]]
        signed == /\ Len(cardValues) > 1
                  /\ cardValues[1] \in {Str("+"), Str("-")}
                  /\ IsNumber(cardValues[2])
        newTargetNumber ==
            IF signed
            THEN (IF cardValues[1] = Str("-") THEN -1 ELSE 1) * ParseJoined(cardValues, 2, 0)
            ELSE ParseJoined(cardValues, 1, 0)
        isNaN == ~signed /\ ~IsNumber(cardValues[1])
    IN  /\ IF replacementCardIndex = 0
           THEN UNCHANGED <<game, resolved>>   \* "No number cards left in the deck"
           ELSE IF isNaN
           THEN UNCHANGED <<game, resolved>>   \* "invalid target number"
           ELSE /\ game' = [game EXCEPT !.targetCards = newTargetCards,
                                        !.targetNumber = newTargetNumber,
                                        !.deck = RemoveAt(game.deck, replacementCardIndex)]
                /\ resolved' = TRUE
        /\ UNCHANGED <<players, advancing>>

\* No case of the switch (the rank is 'SH'): only the end of the turn.
ResolveOther(playerId) ==
    /\ players' = [players EXCEPT ![playerId].passed = TRUE]
    /\ advancing' = advancing \cup {Call("resolveSpecialCard", playerId, FALSE)}
    /\ resolved' = TRUE
    /\ UNCHANGED game

ResolveSpecialCard(playerId, cardRank, target, r, now) ==
    /\ playerId \in DOMAIN players
    /\ UNCHANGED specialPlays
    /\ CASE cardRank = "CL" ->
                /\ target.kind = "card"
                /\ ResolveClone(playerId, target.card, now)
         [] cardRank = "SB" ->
                /\ target.kind = "player"
                /\ ResolveSabotage(playerId, target.playerId, r)
         [] cardRank = "DE" ->
                /\ target.kind = "index"
                /\ ResolveDestiny(playerId, target.index)
         [] OTHER ->
                /\ target.kind = "none"
                /\ ResolveOther(playerId)
    /\ UNCHANGED joining

\* The targets a client names: a target card to clone, a player to
\* sabotage, the slot of a target card, or nothing.
Target(kind, card, playerId, index) ==
    [kind |-> kind, card |-> card, playerId |-> playerId, index |-> index]

TargetInputs(cardRank) ==
    CASE cardRank = "CL" ->
            {Target("card", c, NoPlayer, 0) : c \in SeqToSet(game.targetCards)}
      [] cardRank = "SB" ->
            {Target("player", MissingCard, q, 0) : q \in DOMAIN players}
      [] cardRank = "DE" ->
            {Target("index", MissingCard, NoPlayer, i) :
                i \in 0..(IF Len(game.targetCards) > 0 THEN Len(game.targetCards) - 1 ELSE 0)}
      [] OTHER -> {Target("none", MissingCard, NoPlayer, 0)}

(***************************************************************************)
(* endSpecialAction: one updateDoc.                                        *)
(***************************************************************************)
EndSpecialAction ==
    /\ game' = [game EXCEPT !.gameState = "playerTurn", !.specialAction = NoSpecialAction]
    /\ UNCHANGED <<players, joining, advancing, resolved, specialPlays>>

(***************************************************************************)
(* The games the clients play in protocol, with join calls racing and      *)
(* with at most MaxOffProtocol closing calls made out of turn or state.    *)
(***************************************************************************)
Next ==
    \/ \E playerName \in Names :
          /\ Protocol(game.gameState = "lobby")
          /\ JoinGameQuery(playerName)
    \/ \E i \in 1..NumIds, newPlayerId \in PlayerIds : JoinGameTransaction(i, newPlayerId)
    \/ \E mode \in Modes :
          /\ Protocol(game.gameState = "lobby")
          /\ SetGameMode(mode)
    \/ \E r, r1, r2 \in Random :
          /\ Protocol(game.gameState = "lobby")
          /\ Cardinality(DOMAIN players) <= MaxSeats
          /\ StartGame(r, r1, r2)
    \/ \E playerId \in PlayerIds, input \in ActionInputs :
          /\ playerId \in DOMAIN players
          /\ Protocol(game.gameState = "playerTurn" /\ game.currentPlayerId = playerId)
          /\ Cardinality(advancing) < MaxInFlight
          /\ PlayerAction(playerId, input.action, input.equation,
                          CardsUsedInput(playerId, input.equation))
    \/ \E call \in advancing : AdvanceTurn(call)
    \/ \E r, r1, r2 \in Random :
          /\ Protocol(game.gameState = "roundOver")
          /\ game.gameMode = "special" => game.currentRound < MaxRound
          /\ NextRound(r, r1, r2)
    \/ \E playerId \in PlayerIds :
          /\ playerId \in DOMAIN players
          /\ Protocol(game.gameState = "discarding" /\ game.discardingPlayerId = playerId)
          /\ \E cardsToDiscard \in DiscardInputs(playerId) :
                DiscardCards(playerId, cardsToDiscard)
    \/ \E playerId \in PlayerIds :
          /\ playerId \in DOMAIN players
          /\ Protocol(game.gameState = "playerTurn" /\ game.currentPlayerId = playerId)
          /\ specialPlays < MaxSpecialPlays
          /\ \E card \in SpecialCardInputs(playerId) :
                \E r \in (IF card.rank = "SH" THEN Random ELSE {0}) :
                   PlaySpecialCard(playerId, card, r)
    \/ \E playerId \in PlayerIds, cardRank \in SeqToSet(SPECIAL_RANKS) :
          /\ Protocol(ResolveOffered(playerId, cardRank))
          /\ cardRank \in {"SB", "SH"} => Cardinality(advancing) < MaxInFlight
          /\ \E target \in TargetInputs(cardRank),
                r \in (IF cardRank = "SB" THEN Random ELSE {0}),
                now \in (IF cardRank = "CL" THEN 1..MaxClock ELSE {1}) :
                ResolveSpecialCard(playerId, cardRank, target, r, now)
    \/ /\ Protocol(game.gameState = "specialAction")
       /\ EndSpecialAction

Spec == Init /\ [][Next]_vars

(***************************************************************************)
(* The games of the creator alone, without special cards played, in which  *)
(* play goes on after the calls made out of state.                         *)
(***************************************************************************)
Resumed(offered) ==
    /\ IF offered THEN offProtocol' = offProtocol
       ELSE offProtocol < MaxResumed /\ offProtocol' = offProtocol + 1
    /\ UNCHANGED probe

SoloNext ==
    \/ \E mode \in Modes :
          /\ Resumed(game.gameState = "lobby")
          /\ SetGameMode(mode)
    \/ \E r, r1, r2 \in Random :
          /\ Resumed(game.gameState = "lobby")
          /\ Cardinality(DOMAIN players) <= MaxSeats
          /\ StartGame(r, r1, r2)
    \/ \E playerId \in DOMAIN players, equation \in EquationInputs :
          /\ Resumed(game.gameState = "playerTurn")
          /\ Cardinality(advancing) < MaxInFlight
          /\ PlayerActionSubmit(playerId, equation, CardsUsedInput(playerId, equation))
    \/ \E playerId \in DOMAIN players :
          /\ Resumed(game.gameState = "playerTurn")
          /\ Cardinality(advancing) < MaxInFlight
          /\ PlayerActionPass(playerId)
    \/ \E call \in advancing : AdvanceTurn(call)
    \/ \E r, r1, r2 \in Random :
          /\ Resumed(game.gameState = "roundOver")
          /\ game.gameMode = "special" => game.currentRound < SoloMaxRound
          /\ NextRound(r, r1, r2)
    \/ \E playerId \in DOMAIN players :
          /\ Resumed(game.gameState = "discarding" /\ game.discardingPlayerId = playerId)
          /\ \E cardsToDiscard \in DiscardInputs(playerId) :
                DiscardCards(playerId, cardsToDiscard)

SoloSpec == Init /\ [][SoloNext]_vars

(***************************************************************************)
(* Concurrent flows.  Every call is one the protocol offers; advanceTurn   *)
(* takes two steps, so that another flow's transaction can commit between  *)
(* its reads and its writes, and up to MaxRacing flows are between their   *)
(* own transaction and their advanceTurn.                                  *)
(***************************************************************************)
RaceNext ==
    \/ \E playerName \in Names :
          /\ game.gameState = "lobby"
          /\ Protocol(TRUE)
          /\ JoinGameQuery(playerName)
    \/ \E i \in 1..NumIds, newPlayerId \in PlayerIds : JoinGameTransaction(i, newPlayerId)
    \/ /\ game.gameState = "lobby"
       /\ Protocol(TRUE)
       /\ SetGameMode("special")
    \/ \E r, r1, r2 \in Random :
          /\ game.gameState = "lobby"
          /\ Protocol(TRUE)
          /\ Cardinality(DOMAIN players) <= MaxSeats
          /\ StartGame(r, r1, r2)
    \/ \E playerId \in DOMAIN players, equation \in EquationInputs :
          /\ game.gameState = "playerTurn" /\ game.currentPlayerId = playerId
          /\ Protocol(TRUE)
          /\ Cardinality(advancing) < MaxRacing
          /\ PlayerActionSubmit(playerId, equation, CardsUsedInput(playerId, equation))
    \/ \E playerId \in DOMAIN players :
          /\ game.gameState = "playerTurn" /\ game.currentPlayerId = playerId
          /\ Protocol(TRUE)
          /\ Cardinality(advancing) < MaxRacing
          /\ PlayerActionPass(playerId)
    \/ \E playerId \in DOMAIN players :
          /\ game.gameState = "playerTurn" /\ game.currentPlayerId = playerId
          /\ Protocol(TRUE)
          /\ specialPlays < MaxSpecialPlays
          /\ \E card \in SpecialCardInputs(playerId) :
                \E r \in (IF card.rank = "SH" THEN Random ELSE {0}) :
                   PlaySpecialCard(playerId, card, r)
    \/ \E playerId \in DOMAIN players, cardRank \in SeqToSet(SPECIAL_RANKS) :
          /\ ResolveOffered(playerId, cardRank)
          /\ Protocol(TRUE)
          /\ cardRank \in {"SB", "SH"} => Cardinality(advancing) < MaxRacing
          /\ \E target \in TargetInputs(cardRank),
                r \in (IF cardRank = "SB" THEN Random ELSE {0}),
                now \in (IF cardRank = "CL" THEN 1..MaxClock ELSE {1}) :
                ResolveSpecialCard(playerId, cardRank, target, r, now)
    \/ \E call \in advancing : AdvanceTurnRead(call)
    \/ \E call \in advancing : AdvanceTurnCommit(call)
    \/ /\ game.gameState = "specialAction" /\ resolved
       /\ Protocol(TRUE)
       /\ EndSpecialAction

RaceSpec == Init /\ [][RaceNext]_vars

(***************************************************************************)
(* Games of up to ShuffleSeats players, every call in protocol and         *)
(* advanceTurn one step: with three hands dealt, a Shuffle card is in a    *)
(* hand at the start of the game.                                          *)
(***************************************************************************)
ShuffleNext ==
    \/ \E playerName \in Names \cup {"cat"} :
          /\ game.gameState = "lobby"
          /\ Len(joining) = 0
          /\ Protocol(TRUE)
          /\ JoinGameQuery(playerName)
    \/ \E i \in 1..NumIds, newPlayerId \in PlayerIds : JoinGameTransaction(i, newPlayerId)
    \/ /\ game.gameState = "lobby"
       /\ Protocol(TRUE)
       /\ SetGameMode("special")
    \/ \E r, r1, r2 \in Random :
          /\ game.gameState = "lobby"
          /\ Protocol(TRUE)
          /\ Cardinality(DOMAIN players) <= ShuffleSeats
          /\ StartGame(r, r1, r2)
    \/ \E playerId \in DOMAIN players :
          /\ game.gameState = "playerTurn" /\ game.currentPlayerId = playerId
          /\ ~players[playerId].passed
          /\ Protocol(TRUE)
          /\ Cardinality(advancing) < MaxInFlight
          /\ PlayerActionPass(playerId)
    \/ \E call \in advancing : AdvanceTurn(call)
    \/ \E playerId \in DOMAIN players :
          /\ game.gameState = "playerTurn" /\ game.currentPlayerId = playerId
          /\ ~players[playerId].passed
          /\ Protocol(TRUE)
          /\ specialPlays < MaxSpecialPlays
          /\ \E card \in SpecialCardInputs(playerId) :
                \E r \in (IF card.rank = "SH" THEN Random ELSE {0}) :
                   PlaySpecialCard(playerId, card, r)
    \/ \E playerId \in DOMAIN players, cardRank \in SeqToSet(SPECIAL_RANKS) :
          /\ ResolveOffered(playerId, cardRank)
          /\ Protocol(TRUE)
          /\ cardRank \in {"SB", "SH"} => Cardinality(advancing) < MaxInFlight
          /\ \E target \in TargetInputs(cardRank),
                r \in (IF cardRank = "SB" THEN Random ELSE {0}),
                now \in (IF cardRank = "CL" THEN 1..MaxClock ELSE {1}) :
                ResolveSpecialCard(playerId, cardRank, target, r, now)
    \/ /\ game.gameState = "specialAction" /\ resolved
       /\ Protocol(TRUE)
       /\ EndSpecialAction

ShuffleSpec == Init /\ [][ShuffleNext]_vars

(***************************************************************************)
(* Games of up to ShuffleSeats players in Easy mode in which a player      *)
(* other than the current one may call playerAction: the transaction       *)
(* ignores the call, the advanceTurn after it runs, and play goes on.      *)
(***************************************************************************)
TurnNext ==
    \/ \E playerName \in Names \cup {"cat"} :
          /\ game.gameState = "lobby"
          /\ Len(joining) = 0
          /\ Resumed(TRUE)
          /\ JoinGameQuery(playerName)
    \/ \E i \in 1..NumIds, newPlayerId \in PlayerIds : JoinGameTransaction(i, newPlayerId)
    \/ \E r, r1, r2 \in Random :
          /\ game.gameState = "lobby"
          /\ Resumed(TRUE)
          /\ Cardinality(DOMAIN players) <= ShuffleSeats
          /\ StartGame(r, r1, r2)
    \/ \E playerId \in DOMAIN players :
          /\ game.gameState = "playerTurn" /\ game.currentPlayerId = playerId
          /\ ~players[playerId].passed
          /\ Resumed(TRUE)
          /\ Cardinality(advancing) < MaxInFlight
          /\ PlayerActionPass(playerId)
    \/ \E playerId \in DOMAIN players :
          /\ game.gameState = "playerTurn"
          /\ Resumed(FALSE)
          /\ Cardinality(advancing) < MaxInFlight
          /\ PlayerActionIgnored(playerId)
    \/ \E call \in advancing : AdvanceTurn(call)

TurnSpec == Init /\ [][TurnNext]_vars

(***************************************************************************)
(* Dealing at every size of the lobby: the creator and the players who     *)
(* joined, in join order, after the creator chose a mode.  The game is     *)
(* started, every player passes in turn, and the creator starts the next   *)
(* round once.                                                             *)
(***************************************************************************)
DealInit ==
    \E k \in 1..MaxLobby, mode \in Modes :
        LET names == [p \in 1..k |-> IF p = 1 THEN "ann" ELSE "bob" \o ToString(p)]
            created == [NewGame(1) EXCEPT !.players = [i \in 1..k |-> i]]
        IN  /\ game = IF mode = "special"
                      THEN [created EXCEPT !.gameMode = mode, !.totalRounds = 99,
                                           !.targetScore = 3000]
                      ELSE [created EXCEPT !.gameMode = mode]
            /\ players = [p \in 1..k |-> NewPlayer(names[p])]
            /\ joining = <<>>
            /\ advancing = {}
            /\ resolved = FALSE
            /\ specialPlays = 0
            /\ offProtocol = 0
            /\ probe = [fn |-> "none"]

DealNext ==
    \/ \E r, r1, r2 \in Random :
          /\ game.gameState = "lobby"
          /\ Resumed(TRUE)
          /\ StartGame(r, r1, r2)
    \/ \E playerId \in DOMAIN players :
          /\ game.gameState = "playerTurn" /\ game.currentPlayerId = playerId
          /\ ~players[playerId].passed
          /\ Resumed(TRUE)
          /\ Cardinality(advancing) < MaxInFlight
          /\ PlayerActionPass(playerId)
    \/ \E call \in advancing : AdvanceTurn(call)
    \/ \E r, r1, r2 \in Random :
          /\ game.gameState = "roundOver"
          /\ game.currentRound = 1
          /\ Resumed(TRUE)
          /\ NextRound(r, r1, r2)

DealSpec == DealInit /\ [][DealNext]_vars

(***************************************************************************)
(* Games played in turn in which the client names the used cards freely:   *)
(* a card of the hand, a card that is in no hand, both, a card of the      *)
(* hand twice, or MaxNamedCards cards.                                     *)
(***************************************************************************)
SubmitNext ==
    \/ \E playerName \in Names :
          /\ game.gameState = "lobby"
          /\ Len(joining) = 0
          /\ Resumed(TRUE)
          /\ JoinGameQuery(playerName)
    \/ \E i \in 1..NumIds, newPlayerId \in PlayerIds : JoinGameTransaction(i, newPlayerId)
    \/ \E mode \in Modes :
          /\ game.gameState = "lobby"
          /\ Resumed(TRUE)
          /\ SetGameMode(mode)
    \/ \E r, r1, r2 \in Random :
          /\ game.gameState = "lobby"
          /\ Resumed(TRUE)
          /\ Cardinality(DOMAIN players) <= MaxSeats
          /\ StartGame(r, r1, r2)
    \/ \E playerId \in DOMAIN players, equation \in EquationInputs :
          /\ game.gameState = "playerTurn" /\ game.currentPlayerId = playerId
          /\ ~players[playerId].passed
          /\ Resumed(TRUE)
          /\ Cardinality(advancing) < MaxInFlight
          /\ \E cardsUsed \in {Take(players[playerId].hand, 1), <<MissingCard>>,
                               Take(players[playerId].hand, 1) \o <<MissingCard>>,
                               Take(players[playerId].hand, 1)
                                   \o Take(players[playerId].hand, 1),
                               [i \in 1..MaxNamedCards |-> MissingCard]} :
                PlayerActionSubmit(playerId, equation, cardsUsed)
    \/ \E call \in advancing : AdvanceTurn(call)

SubmitSpec == Init /\ [][SubmitNext]_vars

(***************************************************************************)
(* The Gamble card.  The Rank type names 'GA' and a pending special action *)
(* may carry it, but no flow under src mints, plays or resolves such a     *)
(* card: what follows is the card as the specification describes it.  The  *)
(* Gamble card itself is not held in the hand: playSpecialCard removes the *)
(* played card before the action is pending.                               *)
(***************************************************************************)
\* playSpecialCard with a Gamble card: the action is pending.
PlayGamble(playerId) ==
    /\ playerId \in DOMAIN players
    /\ game' = [game EXCEPT !.gameState = "specialAction",
                            !.specialAction = [playerId |-> playerId, cardRank |-> "GA"]]
    /\ specialPlays' = specialPlays + 1
    /\ resolved' = FALSE
    /\ UNCHANGED <<players, joining, advancing>>

\* resolveSpecialCard for Gamble: the chosen card leaves the hand and the two
\* top cards of the deck enter it; the turn stays with the player.
ResolveGamble(playerId, card) ==
    LET hand == players[playerId].hand
        cardIndex == FindIndex(hand, LAMBDA c : c.id = card.id)
    IN  /\ playerId \in DOMAIN players
        /\ cardIndex # 0
        /\ Len(game.deck) >= 2
        /\ players' = [players EXCEPT ![playerId].hand =
                                         RemoveAt(hand, cardIndex) \o Take(game.deck, 2)]
        /\ game' = [game EXCEPT !.deck = Drop(game.deck, 2)]
        /\ resolved' = TRUE
        /\ UNCHANGED <<joining, advancing, specialPlays>>

GambleNext ==
    \/ \E playerName \in Names :
          /\ game.gameState = "lobby"
          /\ Len(joining) = 0
          /\ Protocol(TRUE)
          /\ JoinGameQuery(playerName)
    \/ \E i \in 1..NumIds, newPlayerId \in PlayerIds : JoinGameTransaction(i, newPlayerId)
    \/ /\ game.gameState = "lobby"
       /\ Protocol(TRUE)
       /\ SetGameMode("special")
    \/ \E r, r1, r2 \in Random :
          /\ game.gameState = "lobby"
          /\ Protocol(TRUE)
          /\ Cardinality(DOMAIN players) <= MaxSeats
          /\ StartGame(r, r1, r2)
    \/ \E playerId \in DOMAIN players :
          /\ game.gameState = "playerTurn" /\ game.currentPlayerId = playerId
          /\ ~players[playerId].passed
          /\ Protocol(TRUE)
          /\ Cardinality(advancing) < MaxInFlight
          /\ PlayerActionPass(playerId)
    \/ \E call \in advancing : AdvanceTurn(call)
    \/ \E playerId \in DOMAIN players :
          /\ game.gameState = "playerTurn" /\ game.currentPlayerId = playerId
          /\ game.gameMode = "special"
          /\ ~players[playerId].passed
          /\ Protocol(TRUE)
          /\ specialPlays < MaxSpecialPlays
          /\ PlayGamble(playerId)
    \/ \E playerId \in DOMAIN players :
          /\ ResolveOffered(playerId, "GA")
          /\ Protocol(TRUE)
          /\ \E card \in SeqToSet(players[playerId].hand) : ResolveGamble(playerId, card)
    \/ /\ game.gameState = "specialAction" /\ resolved
       /\ Protocol(TRUE)
       /\ EndSpecialAction

GambleSpec == Init /\ [][GambleNext]_vars

(***************************************************************************)
(* The functions of src/src/lib/game.ts applied on their own: probe holds  *)
(* the arguments of one call and, once the function has returned, its      *)
(* result.  No game is played meanwhile.                                   *)
(***************************************************************************)
MaxScoreArg == 30
MaxCardsUsed == 3

ScoreInit ==
    /\ Created
    /\ probe \in
          [fn : {"calculateScore"}, result : -MaxScoreArg..MaxScoreArg,
           target : -MaxScoreArg..MaxScoreArg, cardsUsed : 0..MaxCardsUsed,
           done : {FALSE}, score : {0}]

CalculateScore ==
    /\ probe.fn = "calculateScore"
    /\ ~probe.done
    /\ probe' = [probe EXCEPT !.done = TRUE,
                              !.score = calculateScore(Num(probe.result), probe.target,
                                                       probe.cardsUsed)]
    /\ UNCHANGED <<game, players, joining, advancing, resolved, specialPlays, offProtocol>>

ScoreSpec == ScoreInit /\ [][CalculateScore]_vars

\* The equations evaluated: every sequence of at most MaxEquationLen of the
\* terms a client can send, and longer equations of the shapes ( a op b ) c,
\* ( a op b ) * c, a / ( b / c ) and ( a + b ) **.
MaxEquationLen == 4
MaxTerm == 2
MaxOperand == 7

Operators == {Str("+"), Str("-"), Str("*"), Str("/")}
SeqsUpTo(S, n) == UNION {[1..m -> S] : m \in 0..n}

Equations ==
    LET Terms == {Num(n) : n \in 0..MaxTerm} \cup Operators \cup {Str("("), Str(")"), Str("**")}
        Operands == {Num(n) : n \in 0..MaxOperand}
    IN  SeqsUpTo(Terms, MaxEquationLen)
        \cup {<<Str("("), a, op, b, Str(")"), c>> :
                 a \in Operands, b \in Operands, c \in Operands, op \in Operators}
        \cup {<<Str("("), a, op, b, Str(")"), Str("*"), c>> :
                 a \in Operands, b \in Operands, c \in Operands, op \in Operators}
        \cup {<<a, Str("/"), Str("("), b, Str("/"), c, Str(")")>> :
                 a \in Operands, b \in Operands, c \in Operands}
        \cup {<<Str("("), a, Str("+"), b, Str(")"), Str("**")>> :
                 a \in Operands, b \in Operands}

\* Whether the call reaches new Function(`return ${expression}`)(): the
\* equation is not empty, not a single number of Easy mode, passes the Easy
\* alternation test, the power pass and the final validation.
InterpretsExpression(equation, mode) ==
    /\ Len(equation) > 0
    /\ ~(mode = "easy" /\ Len(equation) = 1 /\ equation[1].k = "num")
    /\ mode = "easy" => Len(equation) >= 3 /\ EasyAlternationFault(equation) = 0
    /\ LET power == PowerPass(IF mode = "pro" \/ mode = "special"
                              THEN InsertMultiplication(equation, 1) ELSE equation,
                              1, <<>>, mode)
       IN  power.ok /\ FinalValidation(Lex(power.terms, 1)).k # "err"

EvalInit ==
    /\ Created
    /\ \E equation \in Equations, mode \in Modes :
          probe = [fn |-> "evaluateEquation", equation |-> equation, mode |-> mode,
                   done |-> FALSE, value |-> NaN, interpreted |-> FALSE]

EvaluateEquation ==
    /\ probe.fn = "evaluateEquation"
    /\ ~probe.done
    /\ probe' = [probe EXCEPT !.done = TRUE,
                              !.value = evaluateEquation(probe.equation, probe.mode),
                              !.interpreted = InterpretsExpression(probe.equation, probe.mode)]
    /\ UNCHANGED <<game, players, joining, advancing, resolved, specialPlays, offProtocol>>

EvalSpec == EvalInit /\ [][EvaluateEquation]_vars

\* The decks targets are generated from: the cards of TargetPool, each at
\* most once, in any order, at most MaxDeckLen of them.
MaxDeckLen == 4

Decks ==
    LET TargetPool ==
            {Card("deck-0-Spades-2", "Spades", "2"), Card("deck-0-Hearts-2", "Hearts", "2"),
             Card("deck-0-Spades-10", "Spades", "10"), Card("deck-0-Spades-J", "Spades", "J"),
             Card("deck-0-Spades-Q", "Spades", "Q"), Card("deck-0-Spades-K", "Spades", "K"),
             Card("deck-0-special-CL-1", "Special", "CL")}
    IN  {deck \in SeqsUpTo(TargetPool, MaxDeckLen) :
            \A i \in 1..Len(deck), j \in 1..Len(deck) : deck[i] = deck[j] => i = j}

TargetProbe(fn, deck, mode, r1, r2) ==
    [fn |-> fn, deck |-> deck, mode |-> mode, r1 |-> r1, r2 |-> r2, done |-> FALSE,
     out |-> TargetResult(0, <<>>, <<>>), attempts |-> 0]

TargetInit ==
    /\ Created
    /\ \E deck \in Decks, mode \in Modes :
          \/ probe = TargetProbe("generateEasyTarget", deck, mode, 0, 0)
          \/ \E rr \in (IF mode = "easy" THEN {<<0, 0>>} ELSE ProSamples(deck, mode)) :
                probe = TargetProbe("generateTarget", deck, mode, rr[1], rr[2])

GenerateEasyTarget ==
    /\ probe.fn = "generateEasyTarget"
    /\ ~probe.done
    /\ probe' = [probe EXCEPT !.done = TRUE,
                              !.out = generateEasyTarget(probe.deck, probe.mode),
                              !.attempts = EasyAttempts(probe.deck, probe.mode)]
    /\ UNCHANGED <<game, players, joining, advancing, resolved, specialPlays, offProtocol>>

\* attempts counts the passes of the while loop of generateEasyTarget, which
\* runs in Easy mode and when the deck holds fewer than two number cards.
GenerateTarget ==
    /\ probe.fn = "generateTarget"
    /\ ~probe.done
    /\ probe' = [probe EXCEPT
                    !.done = TRUE,
                    !.out = generateTarget(probe.deck, probe.mode, 2, probe.r1, probe.r2),
                    !.attempts =
                        IF \/ probe.mode = "easy"
                           \/ Len(NumberCards(probe.deck, getCardValues(probe.mode))) < 2
                        THEN EasyAttempts(probe.deck, probe.mode) ELSE 0]
    /\ UNCHANGED <<game, players, joining, advancing, resolved, specialPlays, offProtocol>>

TargetNext == GenerateEasyTarget \/ GenerateTarget

TargetSpec == TargetInit /\ [][TargetNext]_vars

(***************************************************************************)
(* Properties of the flows.                                                *)
(***************************************************************************)
\* The step is the advanceTurn that ends the call.
Advances(call) == call \in advancing /\ advancing' = advancing \ {call}

\* Every card of the game: the hands, the deck and the target cards (the
\* game document has no discard pile).
RECURSIVE CardCount(_, _, _)
CardCount(g, ps, docs) ==
    IF docs = <<>> THEN Len(g.deck) + Len(g.targetCards)
    ELSE Len(ps[Head(docs)].hand) + CardCount(g, ps, Tail(docs))

\* C1: a playerAction made by a player who is not the current player changes
\* nothing: when the whole call has finished (its transaction and the
\* advanceTurn after it), currentPlayerId, the deck, gameState and every
\* player's hand, passed flag, roundScore and totalScore are what they were.
C1_IgnoredActionChangesNothing ==
    [][\A call \in advancing :
          (call.ignored /\ Advances(call))
          => /\ game'.currentPlayerId = game.currentPlayerId
             /\ game'.deck = game.deck
             /\ game'.gameState = game.gameState
             /\ \A p \in DOMAIN players :
                   /\ players'[p].hand = players[p].hand
                   /\ players'[p].passed = players[p].passed
                   /\ players'[p].roundScore = players[p].roundScore
                   /\ players'[p].totalScore = players[p].totalScore]_vars

\* C2: a playerAction of the current player made while gameState is not
\* playerTurn (lobby, specialAction, discarding, roundOver or gameOver)
\* leaves the game document and every player document unchanged.
C2_PlayerActionOnlyInPlayerTurn ==
    [][(/\ game.gameState # "playerTurn"
        /\ \E p \in DOMAIN players : Call("playerAction", p, FALSE) \in advancing' \ advancing)
          => (game' = game /\ players' = players)]_vars

\* C3: no committed state has gameState = playerTurn while every player has
\* passed: the last pass or submission and the end of the round are one write.
C3_NoPlayerTurnWithAllPassed ==
    ~(game.gameState = "playerTurn" /\ \A p \in DOMAIN players : players[p].passed)

\* C4: the roundScore of a round is tallied into totalScore exactly once: a
\* total changes only in a step that ends a round still in play, by the
\* player's roundScore of that round, and never again once the round is over.
C4_RoundTalliedOnce ==
    [][\A p \in DOMAIN players :
          players'[p].totalScore # players[p].totalScore
          => /\ game.gameState \notin {"roundOver", "gameOver"}
             /\ game'.gameState \in {"roundOver", "gameOver"}
             /\ players'[p].totalScore = players[p].totalScore + players[p].roundScore]_vars

\* C5: in a round that started with every player unpassed, the passes of the
\* current players end the round exactly with the last of them: while a
\* player has not passed the round goes on, and when all have passed
\* gameState becomes roundOver with no round winner and every roundScore 0.
C5_AllPassesEndTheRound ==
    [][\A call \in advancing :
          (Advances(call) /\ game.gameState = "playerTurn")
          => IF \E p \in DOMAIN players : ~players[p].passed
             THEN game'.gameState = "playerTurn"
             ELSE (\A p \in DOMAIN players : players[p].equation = <<>>)
                  => /\ game'.gameState = "roundOver"
                     /\ game'.roundWinnerIds = <<>>
                     /\ \A p \in DOMAIN players : players'[p].roundScore = 0]_vars

\* C6: gameOver is terminal: from a state with gameState = gameOver no step
\* changes gameState, a hand, a roundScore or a totalScore.
C6_GameOverIsTerminal ==
    [][game.gameState = "gameOver"
          => /\ game'.gameState = "gameOver"
             /\ \A p \in DOMAIN players :
                   /\ players'[p].hand = players[p].hand
                   /\ players'[p].roundScore = players[p].roundScore
                   /\ players'[p].totalScore = players[p].totalScore]_vars

\* C7: every change of gameState follows an edge of the state diagram:
\* lobby to playerTurn, playerTurn to specialAction and back, playerTurn to
\* roundOver or gameOver, roundOver to playerTurn, discarding or gameOver,
\* discarding to playerTurn.
C7_StateChangesFollowTheDiagram ==
    [][game'.gameState # game.gameState
          => <<game.gameState, game'.gameState>> \in
                {<<"lobby", "playerTurn">>,
                 <<"playerTurn", "specialAction">>, <<"specialAction", "playerTurn">>,
                 <<"playerTurn", "roundOver">>, <<"playerTurn", "gameOver">>,
                 <<"roundOver", "playerTurn">>, <<"roundOver", "discarding">>,
                 <<"roundOver", "gameOver">>,
                 <<"discarding", "playerTurn">>}]_vars

\* C8: cards are conserved within a round: a step of the play of a round
\* made in protocol keeps the number of cards in the hands,
\* the deck, the discard pile and the target cards, but for the one card a
\* resolved Clone adds.
C8_CardsConservedInRound ==
    [][(/\ game.gameState \in {"playerTurn", "specialAction"}
        /\ game'.gameState # "lobby"
        /\ game'.currentRound = game.currentRound
        /\ offProtocol' = offProtocol)
          => CardCount(game', players', PlayerDocs)
                = CardCount(game, players, PlayerDocs)
                  + (IF game.specialAction.cardRank = "CL" /\ ~resolved /\ resolved'
                     THEN 1 ELSE 0)]_vars

\* C9: no card id appears twice in the hand of a player, in particular
\* after nextRound has dealt the new cards of a Special round.
C9_NoCardIdTwiceInAHand ==
    \A p \in DOMAIN players :
       \A i, j \in 1..Len(players[p].hand) :
          i # j => players[p].hand[i].id # players[p].hand[j].id

\* C10: whatever the interleaving of the joinGame calls, two of them with
\* the same name at once included, no two players of the game have the
\* same name.
C10_PlayerNamesAreUnique ==
    \A p, q \in DOMAIN players : p # q => players[p].name # players[q].name

\* C11: no update of a hand is lost: a turn advance that deals a card leaves
\* every hand as it was when the advance committed, but for the card dealt
\* at the end of one player's hand.
C11_NoHandUpdateLost ==
    [][\A call \in advancing :
          (AdvanceTurnCommit(call) /\ game'.deck # game.deck)
          => \E q \in DOMAIN players :
                \A p \in DOMAIN players :
                   players'[p].hand = IF p = q THEN Append(players[p].hand, game.deck[1])
                                      ELSE players[p].hand]_vars

\* C12: a rejected action changes no game or player field and does not
\* advance the turn: a submission whose equation the evaluator rejects, a
\* discardCards call in the wrong phase, by the wrong player, with a count
\* other than 3 or naming a card that is not in the hand, a playSpecialCard
\* naming a card that is not in the hand, a Destiny resolution with no number
\* card left in the deck.
C12_RejectedActionsChangeNothing ==
    [][\A playerId \in DOMAIN players :
          /\ \A equation \in EquationInputs :
                (/\ IsError(evaluateEquation(equation, game.gameMode))
                 /\ PlayerActionSubmit(playerId, equation,
                                       CardsUsedInput(playerId, equation)))
                => UNCHANGED <<game, players, advancing>>
          /\ \A cardsToDiscard \in DiscardInputs(playerId) :
                (/\ \/ game.gameState # "discarding"
                    \/ game.discardingPlayerId # playerId
                    \/ Len(cardsToDiscard) # 3
                    \/ ~(Ids(cardsToDiscard) \subseteq Ids(players[playerId].hand))
                 /\ DiscardCards(playerId, cardsToDiscard))
                => UNCHANGED <<game, players, advancing>>
          /\ PlaySpecialCard(playerId, MissingCard, 0)
                => UNCHANGED <<game, players, advancing>>
          /\ \A target \in TargetInputs("DE") :
                (/\ \A i \in 1..Len(game.deck) :
                       ~IsNumber(getCardValues(game.gameMode)[game.deck[i].rank])
                 /\ ResolveSpecialCard(playerId, "DE", target, 0, 1))
                => UNCHANGED <<game, players, advancing>>]_vars

\* C13: after a successful submission by the current player, the roundScore
\* of that player is the score of the evaluated result against the target
\* number and the number of cards used, passed is true, every used card is
\* gone from the hand, and every used card is in the discard pile.
C13_SubmitScoresAndDiscards ==
    [][\A playerId \in DOMAIN players : \A equation \in EquationInputs :
          LET cardsUsed == CardsUsedInput(playerId, equation)
              result == evaluateEquation(equation, game.gameMode)
              \* The cards the game holds as discarded: the Game type of the
              \* flows has no field for them (a later Game type declares
              \* discardPile), and no flow writes a used card anywhere.
              discardPile == {}
          IN  (/\ ~IsError(result)
               /\ PlayerActionSubmit(playerId, equation, cardsUsed))
              => /\ players'[playerId].roundScore =
                       calculateScore(result, game.targetNumber, Len(cardsUsed))
                 /\ players'[playerId].passed
                 /\ Ids(cardsUsed) \cap Ids(players'[playerId].hand) = {}
                 /\ SeqToSet(cardsUsed) \subseteq discardPile]_vars

\* C14: when a round ends in roundOver, roundWinnerIds is exactly the set of
\* the players whose roundScore is the maximum roundScore of the round, and
\* it is empty when that maximum is 0.
C14_RoundWinnersHaveTheMaximum ==
    [][\A call \in advancing :
          (/\ Advances(call)
           /\ game.gameState # "roundOver"
           /\ game'.gameState = "roundOver")
          => LET highest == MaxOf({players'[p].roundScore : p \in DOMAIN players})
             IN  SeqToSet(game'.roundWinnerIds) =
                    IF highest = 0 THEN {}
                    ELSE {p \in DOMAIN players : players'[p].roundScore = highest}]_vars

\* C15: in Special mode a round that ends with a total at the target score
\* ends the game: no Special game in roundOver or playerTurn has a player
\* whose totalScore has reached targetScore.
C15_NoPlayAtTheTargetScore ==
    (game.gameMode = "special" /\ game.gameState \in {"roundOver", "playerTurn"})
    => \A p \in DOMAIN players : players[p].totalScore < game.targetScore

\* C16: in Easy and Pro mode currentRound never exceeds totalRounds, and a
\* nextRound issued when currentRound is already totalRounds sets gameState
\* to gameOver and changes nothing else.
C16_EasyProPlayTotalRounds ==
    [][/\ game'.gameMode \in {"easy", "pro"} => game'.currentRound <= game'.totalRounds
       /\ \A r, r1, r2 \in Random :
             (/\ game.gameMode \in {"easy", "pro"}
              /\ game.currentRound = game.totalRounds
              /\ NextRound(r, r1, r2))
             => /\ game' = [game EXCEPT !.gameState = "gameOver"]
                /\ UNCHANGED players]_vars

\* C17: setGameMode is lobby-only: called when gameState is not lobby it
\* leaves gameMode, totalRounds and targetScore unchanged, so the mode of a
\* game never changes once it has left the lobby.
C17_SetGameModeOnlyInLobby ==
    [][/\ \A mode \in Modes :
             (game.gameState # "lobby" /\ SetGameMode(mode))
             => /\ game'.gameMode = game.gameMode
                /\ game'.totalRounds = game.totalRounds
                /\ game'.targetScore = game.targetScore
       /\ game.gameState # "lobby" => game'.gameMode = game.gameMode]_vars

\* C18: a Special nextRound that leaves a hand above the limit of 10 cards
\* puts the game in discarding with the player of such a hand as
\* discardingPlayerId, and gameState becomes playerTurn from discarding only
\* in a step in which the discarding player, and every player whose hand is
\* above the limit, removes exactly 3 cards.
C18_DiscardGate ==
    [][/\ \A r, r1, r2 \in Random :
             (/\ game.gameMode = "special"
              /\ NextRound(r, r1, r2)
              /\ \E p \in DOMAIN players : Len(players'[p].hand) > HAND_LIMIT)
             => /\ game'.gameState = "discarding"
                /\ game'.discardingPlayerId \in DOMAIN players
                /\ Len(players'[game'.discardingPlayerId].hand) > HAND_LIMIT
       /\ (game.gameState = "discarding" /\ game'.gameState = "playerTurn")
          => /\ game.discardingPlayerId \in DOMAIN players
             /\ \A p \in DOMAIN players :
                   (p = game.discardingPlayerId \/ Len(players[p].hand) > HAND_LIMIT)
                   => Len(players'[p].hand) = Len(players[p].hand) - 3]_vars

\* C19: while gameState is specialAction and the pending special action has
\* been neither resolved nor ended, currentPlayerId does not change, no turn
\* advance deals a card from the deck, and no passed flag or roundScore
\* changes.
C19_SpecialActionSuspendsTheTurn ==
    [][(game.gameState = "specialAction" /\ ~resolved /\ ~resolved')
       => /\ game'.currentPlayerId = game.currentPlayerId
          /\ \A call \in advancing : Advances(call) => game'.deck = game.deck
          /\ \A p \in DOMAIN players :
                /\ players'[p].passed = players[p].passed
                /\ players'[p].roundScore = players[p].roundScore]_vars

\* The number of times card c occurs in hand.
Occurrences(hand, c) == Cardinality({i \in 1..Len(hand) : hand[i] = c})

\* C20: playing a Shuffle card that is in the hand leaves gameState,
\* currentPlayerId and every passed flag unchanged, takes the Shuffle card out
\* of the hand (the hand is one card smaller), and leaves the other cards of
\* the hand the same cards, in any order.
C20_ShuffleKeepsTheOtherCards ==
    [][\A playerId \in DOMAIN players, r \in Random :
          \A card \in SeqToSet(players[playerId].hand) :
             (card.rank = "SH" /\ PlaySpecialCard(playerId, card, r))
             => LET hand == players[playerId].hand
                    others == RemoveAt(hand, FindIndex(hand, LAMBDA c : c.id = card.id))
                    newHand == players'[playerId].hand
                IN  /\ game'.gameState = game.gameState
                    /\ game'.currentPlayerId = game.currentPlayerId
                    /\ \A p \in DOMAIN players : players'[p].passed = players[p].passed
                    /\ Len(newHand) = Len(hand) - 1
                    /\ \A c \in SeqToSet(hand) \cup SeqToSet(newHand) :
                          Occurrences(newHand, c) = Occurrences(others, c)]_vars

\* C21: resolving Sabotage against another player whose hand is not empty
\* removes exactly one card from that hand and adds the same card to the hand
\* of the acting player; against an empty hand no hand changes.
C21_SabotageStealsOneCard ==
    [][\A playerId \in DOMAIN players, targetPlayerId \in DOMAIN players, r \in Random :
          (/\ playerId # targetPlayerId
           /\ ResolveSpecialCard(playerId, "SB",
                                 Target("player", MissingCard, targetPlayerId, 0), r, 1))
          => LET hand == players[targetPlayerId].hand
                 own == players[playerId].hand
                 newOwn == players'[playerId].hand
             IN  IF Len(hand) > 0
                 THEN \E i \in 1..Len(hand) :
                         /\ players'[targetPlayerId].hand = RemoveAt(hand, i)
                         /\ Len(newOwn) = Len(own) + 1
                         /\ \A c \in SeqToSet(newOwn) :
                               Occurrences(newOwn, c) =
                                  Occurrences(own, c) + (IF c = hand[i] THEN 1 ELSE 0)
                 ELSE \A p \in DOMAIN players : players'[p].hand = players[p].hand]_vars

C24_ScoreFormula ==
    (probe.fn = "calculateScore" /\ probe.done)
    => LET result == probe.result
           target == probe.target
           cardsUsed == probe.cardsUsed
           distance == IF result >= target THEN result - target ELSE target - result
           rest == 500 - 10 * distance - 20 * cardsUsed
       IN  /\ probe.score \in Int
           /\ probe.score =
                 IF result = 0 /\ cardsUsed = 0 THEN 0
                 ELSE IF result = target /\ cardsUsed > 0 THEN 1000 - 20 * cardsUsed
                 ELSE IF rest > 0 THEN rest ELSE 0

C24_ExactMatchScored ==
    /\ probe.fn = "calculateScore" /\ probe.done
    /\ probe.result = probe.target /\ probe.cardsUsed = 3 /\ probe.score = 940

\* C25: the evaluator returns an error, never a number, for the empty
\* equation in any mode, in Easy mode for every equation that is not an
\* alternation of numbers and operators of odd length (so for every equation
\* with a parenthesis or the power marker), and in any mode for an equation
\* that divides by 0.
C25_MalformedEquationsAreErrors ==
    LET equation == probe.equation
        \* An equation of Easy mode as the rules have it: numbers and
        \* operators in turn, of odd length, a number first and last.
        EasyAlternation ==
            /\ Len(equation) % 2 = 1
            /\ \A i \in 1..Len(equation) :
                  IF i % 2 = 1 THEN IsNumber(equation[i]) ELSE equation[i] \in Operators
        \* A division by the number 0 stands in the equation.
        DividesByZero ==
            \E i \in 1..(Len(equation) - 1) :
                equation[i] = Str("/") /\ equation[i + 1] = Num(0)
    IN  (probe.fn = "evaluateEquation" /\ probe.done)
        => /\ Len(equation) = 0 => IsError(probe.value)
           /\ (probe.mode = "easy" /\ ~EasyAlternation) => IsError(probe.value)
           /\ DividesByZero => IsError(probe.value)

C28_NeverInterpreted ==
    (probe.fn = "evaluateEquation" /\ probe.done) => ~probe.interpreted

C31_ProTargetFromTwoNumberCards ==
    (probe.fn = "generateTarget" /\ probe.done /\ probe.mode \in {"pro", "special"})
    => LET deck == probe.deck
           out == probe.out
           values == [i \in 1..Len(deck) |-> getCardValues(probe.mode)[deck[i].rank]]
           numbers == {i \in 1..Len(deck) : IsNumber(values[i]) /\ deck[i].suit # "Special"}
           Joined(a, b) == IF b < 10 THEN 10 * a + b ELSE 100 * a + b
           Without(i, j) ==
               LET lo == IF i < j THEN i ELSE j
                   hi == IF i < j THEN j ELSE i
               IN  SubSeq(deck, 1, lo - 1) \o SubSeq(deck, lo + 1, hi - 1)
                       \o SubSeq(deck, hi + 1, Len(deck))
       IN  IF Cardinality(numbers) >= 2
           THEN \E i \in numbers, j \in numbers :
                    /\ deck[i].id # deck[j].id
                    /\ out.cardsUsed = <<deck[i], deck[j]>>
                    /\ out.target = Joined(values[i].n, values[j].n)
                    /\ out.updatedDeck = Without(i, j)
           ELSE out = generateEasyTarget(deck, probe.mode)

C31_TwoDigitFaceJoined ==
    /\ probe.fn = "generateTarget" /\ probe.done /\ probe.mode = "pro"
    /\ probe.out.target = 210
    /\ Len(probe.deck) = 4 /\ Len(probe.out.updatedDeck) = 2

C33_FreshRoundDealt ==
    [][(/\ Len(game.players) \in 1..game.maxPlayers
        /\ \/ \E r, r1, r2 \in Random : StartGame(r, r1, r2)
           \/ /\ game.gameMode \in {"easy", "pro"}
              /\ game'.gameState # "gameOver"
              /\ \E r, r1, r2 \in Random : NextRound(r, r1, r2))
       => /\ game'.gameState = "playerTurn"
          /\ game'.currentPlayerId = game.players[1]
          /\ \A p \in DOMAIN players' :
                /\ ~players'[p].passed
                /\ players'[p].roundScore = 0
                /\ Len(players'[p].hand) = IF p = game.players[1] THEN 6 ELSE 5]_vars

\* A second round dealt to a full lobby of eight in a Pro game.
C33_EightDealtAgain ==
    /\ game.gameState = "playerTurn"
    /\ game.gameMode = "pro"
    /\ game.currentRound = 2
    /\ Len(game.players) = game.maxPlayers
    /\ Len(players[game.players[1]].hand) = 6
    /\ Len(players[game.players[8]].hand) = 5

\* C34: nextRound takes effect only in roundOver: issued in lobby,
\* playerTurn, specialAction or discarding it leaves currentRound, the deck,
\* the target and every hand unchanged.
C34_NextRoundOnlyInRoundOver ==
    [][(/\ game.gameState \in {"lobby", "playerTurn", "specialAction", "discarding"}
        /\ \E r, r1, r2 \in Random : NextRound(r, r1, r2))
       => /\ game'.currentRound = game.currentRound
          /\ game'.deck = game.deck
          /\ game'.targetNumber = game.targetNumber
          /\ game'.targetCards = game.targetCards
          /\ \A p \in DOMAIN players : players'[p].hand = players[p].hand]_vars

\* C35: special-card operations follow the turn protocol: playSpecialCard
\* has an effect only in playerTurn by the current player, resolveSpecialCard
\* only in specialAction with the playerId and card rank of the pending
\* special action; any other play or resolve changes nothing.
C35_SpecialCardsFollowTheProtocol ==
    [][(\/ \E playerId \in DOMAIN players :
              /\ ~(game.gameState = "playerTurn" /\ game.currentPlayerId = playerId)
              /\ \E card \in SpecialCardInputs(playerId), r \in Random :
                    PlaySpecialCard(playerId, card, r)
        \/ \E playerId \in DOMAIN players, cardRank \in SeqToSet(SPECIAL_RANKS) :
              /\ ~(/\ game.gameState = "specialAction"
                   /\ game.specialAction = [playerId |-> playerId, cardRank |-> cardRank])
              /\ \E target \in TargetInputs(cardRank), r \in Random, now \in 1..MaxClock :
                    ResolveSpecialCard(playerId, cardRank, target, r, now))
       => UNCHANGED <<game, players, advancing>>]_vars

\* C36: endSpecialAction changes gameState only when it is specialAction:
\* called in any other state, as after a Sabotage whose advanceTurn has
\* ended the round, it leaves gameState as it is.
C36_EndSpecialActionOnlyInSpecialAction ==
    [][(EndSpecialAction /\ game.gameState # "specialAction")
       => game'.gameState = game.gameState]_vars

\* C37: a submit is scored only on cards the player holds: a successful
\* submit names cards of the hand and shrinks the hand by exactly the number
\* of cards it is scored for, and a submit naming a card that is not in the
\* hand is rejected without any change.
C37_SubmitScoredOnHeldCards ==
    [][\A playerId \in DOMAIN players :
          LET hand == players[playerId].hand
              after == players'[playerId]
              submitted == /\ game.currentPlayerId = playerId
                           /\ ~players[playerId].passed
                           /\ after.passed
                           /\ after.equation # <<>>
          IN  submitted =>
                 /\ Ids(after.cardsUsed) \subseteq Ids(hand)
                 /\ Len(after.hand) = Len(hand) - Len(after.cardsUsed)]_vars

\* C38: every roundScore stored by a submit or a pass lies in 0..980,
\* whatever the result, the target and the number of used cards (an exact
\* match scored with more than 50 used cards included), so no roundScore is
\* negative and no totalScore ever decreases.
C38_RoundScoreInRange ==
    [][\A p \in DOMAIN players :
          /\ players'[p].roundScore \in 0..980
          /\ players'[p].totalScore >= players[p].totalScore]_vars

\* C39: in Special mode, whenever the play of a round begins (gameState
\* becomes playerTurn by nextRound, or by the discardCards that follows it),
\* no player holds more than 10 cards, also when two or more players
\* exceeded 10 cards after the 3-card draw.
C39_NoHandOverLimitWhenPlayBegins ==
    [][(/\ game.gameMode = "special"
        /\ game'.gameState = "playerTurn"
        /\ \/ /\ game.gameState = "roundOver"
              /\ \E r, r1, r2 \in Random : NextRound(r, r1, r2)
           \/ /\ game.gameState = "discarding"
              /\ \E playerId \in DOMAIN players :
                    \E cardsToDiscard \in DiscardInputs(playerId) :
                       DiscardCards(playerId, cardsToDiscard))
       => \A p \in DOMAIN players : Len(players'[p].hand) <= HAND_LIMIT]_vars

\* C40: Easy-mode target generation returns the fallback target 10 only
\* when the deck holds no two number cards and '+' or '-' card whose result
\* is an integer in 1..100: when there is such a combination, a target with
\* three consumed cards is returned.
C40_FallbackOnlyWithoutCombination ==
    (probe.fn = "generateEasyTarget" /\ probe.done /\ probe.mode = "easy")
    => LET deck == probe.deck
           values == [i \in 1..Len(deck) |-> getCardValues(probe.mode)[deck[i].rank]]
           numbers == {i \in 1..Len(deck) : IsNumber(values[i])}
           Combines(i, j, k) ==
               /\ i # k
               /\ \/ values[j] = Str("+") /\ values[i].n + values[k].n \in 1..100
                  \/ values[j] = Str("-") /\ values[i].n - values[k].n \in 1..100
       IN  (\E i \in numbers, j \in 1..Len(deck), k \in numbers : Combines(i, j, k))
           => /\ Len(probe.out.cardsUsed) = 3
              /\ probe.out.target \in 1..100

====
